---- MODULE Spec2Model ----
(***************************************************************************)
(* Authorization model of the wiki: directories (containers), pages        *)
(* (items), permission grants, group membership and the system owner, with *)
(* the decision functions of wiki/lib/permissions.py and the request       *)
(* handlers of wiki/directories/views.py, wiki/pages/views.py and          *)
(* wiki/groups/views.py that write them.                                   *)
(*                                                                         *)
(* Titles, contents, slugs and path strings are not modelled: a directory  *)
(* is identified by its primary key, the root directory (path == "") is    *)
(* the key Root, and a path lookup is a choice of the directory it finds.  *)
(***************************************************************************)
EXTENDS Integers, Sequences, FiniteSets, TLC

\* ------------------------------------------------------------------ bounds
MaxDirs == 2        \* primary keys available to non-root directories
MaxPages == 1       \* primary keys available to pages
MaxOps == 3         \* write requests served in one behaviour
MaxThreads == 3     \* requests served side by side
MaxWalk == 7        \* turns of the ancestor loops followed in one call

\* ------------------------------------------------------- value domains
Users == {"u1", "u2"}
Groups == {"g1"}
NoUser == "none"
NoGroup == "no_group"
NoDir == -1
Root == 0
DirIds == 0..MaxDirs
PageIds == 1..MaxPages

Visibility == {"public", "internal", "private"}
Editability == {"restricted", "internal"}
PermissionType == {"view", "edit", "owner"}

VARIABLES
    directories,      \* Directory rows: pk -> [parent, owner, visibility, editability]
    dir_revisions,    \* DirectoryRevision rows: pk -> sequence of [visibility, editability]
    dir_permissions,  \* DirectoryPermission rows
    pages,            \* Page rows: pk -> [directory, owner, visibility, editability]
    page_revisions,   \* PageRevision rows: pk -> number of revisions
    page_permissions, \* PagePermission rows
    user_groups,      \* auth membership: user -> set of groups
    system_config,    \* SystemConfig singleton: [owner]
    ops,              \* number of write requests served
    validation,       \* inputs and results of a run of the consistency validator
    request,          \* the last request served: [user, status]
    propagation,      \* a propagation request in progress: its remaining writes
    threads,          \* requests being served side by side: position and locals
    profiles          \* UserProfile rows: user -> [magic_link_token]

vars == <<directories, dir_revisions, dir_permissions, pages, page_revisions,
          page_permissions, user_groups, system_config, ops, validation,
          request, propagation, threads, profiles>>

\* ---------------------------------------------------------- principals
\* A user object as the decision functions receive it.  The memoized group
\* ids live on the object (hasattr(user, "_group_ids_cache")).
UserObject(u, has_cache, cache) ==
    [id |-> u, is_authenticated |-> TRUE,
     has_group_ids_cache |-> has_cache, _group_ids_cache |-> cache]

\* request.user of a logged-in request: loaded anew, nothing memoized yet.
RequestUser(u) == UserObject(u, FALSE, {})

\* django.contrib.auth.models.AnonymousUser
AnonymousUser ==
    [id |-> NoUser, is_authenticated |-> FALSE,
     has_group_ids_cache |-> FALSE, _group_ids_cache |-> {}]

\* ------------------------------------------------- consistency validator
_VISIBILITY_OPENNESS == [private |-> 0, internal |-> 1, public |-> 2]

\* _VISIBILITY_OPENNESS.get(v, 0)
_openness_get(v) ==
    IF v \in DOMAIN _VISIBILITY_OPENNESS THEN _VISIBILITY_OPENNESS[v] ELSE 0

\* Variant: equal visibility counts as more open.
is_more_open_than_or_equal(page_visibility, directory_visibility) ==
    _openness_get(page_visibility) >= _openness_get(directory_visibility)

is_more_open_than(page_visibility, directory_visibility) ==
    _openness_get(page_visibility) > _openness_get(directory_visibility)

is_editability_more_open_than_visibility(editability, visibility) ==
    editability = "internal" /\ visibility = "private"

\* Variant: the openness check is skipped.
_validate_page_no_openness(visibility, editability, directory, directory_visibility) ==
    IF is_editability_more_open_than_visibility(editability, visibility)
    THEN "editability_visibility"
    ELSE "ok"

\* The page handlers check openness first, then editability against
\* visibility, and name the invariant that failed.
_validate_page(visibility, editability, directory, directory_visibility) ==
    IF directory # NoDir /\ is_more_open_than(visibility, directory_visibility)
    THEN "openness"
    ELSE IF is_editability_more_open_than_visibility(editability, visibility)
    THEN "editability_visibility"
    ELSE "ok"

\* No request has been served yet.
NoRequest == [user |-> NoUser, status |-> "none"]

\* No propagation request is in progress.
NoPropagation ==
    [status |-> "idle", user |-> NoUser, todo |-> << >>,
     before |-> << >>, after |-> << >>]

\* No request is being served side by side with another.
ThreadIds == 1..MaxThreads
NoThread == [kind |-> "idle"]

\* UserProfile rows with no sign-in token outstanding
\* (clear_magic_token: magic_link_token = "", written 0).
NoToken == 0
NoProfiles == [u \in Users |-> [magic_link_token |-> NoToken]]

\* No validator run is being observed.
NoValidation ==
    [page_visibility |-> "", directory_visibility |-> "", editability |-> "",
     more_open |-> "unchecked", editability_more_open |-> "unchecked",
     outcome |-> "unchecked"]

\* ------------------------------------------------------ policy evaluator
is_system_owner(user) ==
    IF ~user.is_authenticated THEN FALSE
    ELSE system_config.owner = user.id

_user_group_ids(user) ==
    IF ~user.has_group_ids_cache THEN user_groups[user.id]
    ELSE user._group_ids_cache

\* Variant: the filter matches the user only, never a group.
_user_or_group_q_user_only(user, perm) == perm.user = user.id

\* The Q filter applied to one permission row.
_user_or_group_q(user, perm) ==
    \/ perm.user = user.id
    \/ /\ _user_group_ids(user) # {}
       /\ perm.group \in _user_group_ids(user)

\* directory.permissions.filter(_user_or_group_q(user)).exists()
_dir_permission_exists(user, d) ==
    \E perm \in dir_permissions :
        perm.directory = d /\ _user_or_group_q(user, perm)

\* d.permissions.filter(_user_or_group_q(user), permission_type__in=edit_types).exists()
_dir_edit_permission_exists(user, d) ==
    \E perm \in dir_permissions :
        /\ perm.directory = d
        /\ _user_or_group_q(user, perm)
        /\ perm.permission_type \in {"edit", "owner"}

_page_permission_exists(user, p) ==
    \E perm \in page_permissions :
        perm.page = p /\ _user_or_group_q(user, perm)

\* Variant: any page grant counts, whatever its type.
_page_edit_permission_exists_any_type(user, p) ==
    \E perm \in page_permissions :
        perm.page = p /\ _user_or_group_q(user, perm)

_page_edit_permission_exists(user, p) ==
    \E perm \in page_permissions :
        /\ perm.page = p
        /\ _user_or_group_q(user, perm)
        /\ perm.permission_type \in {"edit", "owner"}

\* The ancestor loop of can_view_directory: grant or ownership at each level.
RECURSIVE _view_directory_walk(_, _)
_view_directory_walk(user, parent) ==
    IF parent = NoDir THEN FALSE
    ELSE IF _dir_permission_exists(user, parent) THEN TRUE
    ELSE IF directories[parent].owner = user.id THEN TRUE
    ELSE _view_directory_walk(user, directories[parent].parent)

\* Variant: no system-owner bypass.
can_view_directory_no_system_owner(user, d) ==
    IF d = Root THEN TRUE
    ELSE IF directories[d].visibility = "public" THEN TRUE
    ELSE IF ~user.is_authenticated THEN FALSE
    ELSE IF directories[d].visibility = "internal" THEN TRUE
    ELSE IF directories[d].owner = user.id THEN TRUE
    ELSE IF _dir_permission_exists(user, d) THEN TRUE
    ELSE _view_directory_walk(user, directories[d].parent)

can_view_directory(user, d) ==
    IF d = Root THEN TRUE
    ELSE IF directories[d].visibility = "public" THEN TRUE
    ELSE IF ~user.is_authenticated THEN FALSE
    ELSE IF directories[d].visibility = "internal" THEN TRUE
    ELSE IF is_system_owner(user) THEN TRUE
    ELSE IF directories[d].owner = user.id THEN TRUE
    ELSE IF _dir_permission_exists(user, d) THEN TRUE
    ELSE _view_directory_walk(user, directories[d].parent)

\* The directory loop of can_view_page: any grant at each level.
RECURSIVE _view_page_walk(_, _)
_view_page_walk(user, directory) ==
    IF directory = NoDir THEN FALSE
    ELSE IF _dir_permission_exists(user, directory) THEN TRUE
    ELSE _view_page_walk(user, directories[directory].parent)

\* Variant: the directory gate is applied before the public check.
can_view_page_gate_first(user, p) ==
    IF pages[p].directory # NoDir
       /\ ~can_view_directory(user, pages[p].directory) THEN FALSE
    ELSE IF pages[p].visibility = "public" THEN TRUE
    ELSE IF ~user.is_authenticated THEN FALSE
    ELSE IF pages[p].visibility = "internal" THEN TRUE
    ELSE IF is_system_owner(user) THEN TRUE
    ELSE IF pages[p].owner = user.id THEN TRUE
    ELSE IF _page_permission_exists(user, p) THEN TRUE
    ELSE _view_page_walk(user, pages[p].directory)

\* Variant: no directory gate.
can_view_page_no_gate(user, p) ==
    IF pages[p].visibility = "public" THEN TRUE
    ELSE IF ~user.is_authenticated THEN FALSE
    ELSE IF pages[p].visibility = "internal" THEN TRUE
    ELSE IF is_system_owner(user) THEN TRUE
    ELSE IF pages[p].owner = user.id THEN TRUE
    ELSE IF _page_permission_exists(user, p) THEN TRUE
    ELSE _view_page_walk(user, pages[p].directory)

can_view_page(user, p) ==
    IF pages[p].visibility = "public" THEN TRUE
    ELSE IF ~user.is_authenticated THEN FALSE
    ELSE IF pages[p].directory # NoDir
            /\ ~can_view_directory(user, pages[p].directory) THEN FALSE
    ELSE IF pages[p].visibility = "internal" THEN TRUE
    ELSE IF is_system_owner(user) THEN TRUE
    ELSE IF pages[p].owner = user.id THEN TRUE
    ELSE IF _page_permission_exists(user, p) THEN TRUE
    ELSE _view_page_walk(user, pages[p].directory)

\* Variant: only the starting directory is looked at, no walk upwards.
_edit_walk_self_only(user, d) ==
    IF d = NoDir THEN FALSE
    ELSE _dir_edit_permission_exists(user, d)

\* The loops of can_edit_page and can_edit_directory: EDIT/OWNER grant at
\* each level, starting at the given directory.
RECURSIVE _edit_walk(_, _)
_edit_walk(user, d) ==
    IF d = NoDir THEN FALSE
    ELSE IF _dir_edit_permission_exists(user, d) THEN TRUE
    ELSE _edit_walk(user, directories[d].parent)

\* Variant: no owner bypass.
can_edit_page_no_owner(user, p) ==
    IF ~user.is_authenticated THEN FALSE
    ELSE IF pages[p].editability = "internal" THEN TRUE
    ELSE IF is_system_owner(user) THEN TRUE
    ELSE IF _page_edit_permission_exists(user, p) THEN TRUE
    ELSE _edit_walk(user, pages[p].directory)

can_edit_page(user, p) ==
    IF ~user.is_authenticated THEN FALSE
    ELSE IF pages[p].editability = "internal" THEN TRUE
    ELSE IF is_system_owner(user) THEN TRUE
    ELSE IF pages[p].owner = user.id THEN TRUE
    ELSE IF _page_edit_permission_exists(user, p) THEN TRUE
    ELSE _edit_walk(user, pages[p].directory)

\* Variant: editability is looked at before authentication.
can_edit_directory_editability_first(user, d) ==
    IF directories[d].editability = "internal" THEN TRUE
    ELSE IF ~user.is_authenticated THEN FALSE
    ELSE IF is_system_owner(user) THEN TRUE
    ELSE IF directories[d].owner = user.id THEN TRUE
    ELSE _edit_walk(user, d)

can_edit_directory(user, d) ==
    IF ~user.is_authenticated THEN FALSE
    ELSE IF directories[d].editability = "internal" THEN TRUE
    ELSE IF is_system_owner(user) THEN TRUE
    ELSE IF directories[d].owner = user.id THEN TRUE
    ELSE _edit_walk(user, d)

\* ------------------------------------------------------------ the store
Dirs == DOMAIN directories
PageSet == DOMAIN pages

Children(d) == {c \in Dirs : directories[c].parent = d}
PagesIn(d) == {p \in PageSet : pages[p].directory = d}

RECURSIVE _collect_descendant_ids(_)
_collect_descendant_ids(d) ==
    Children(d) \cup UNION {_collect_descendant_ids(c) : c \in Children(d)}

FreeDirIds == (1..MaxDirs) \ Dirs
FreePageIds == PageIds \ PageSet
Min(S) == CHOOSE x \in S : \A y \in S : x <= y

DirRow(parent, owner, visibility, editability) ==
    [parent |-> parent, owner |-> owner,
     visibility |-> visibility, editability |-> editability]
PageRow(directory, owner, visibility, editability) ==
    [directory |-> directory, owner |-> owner,
     visibility |-> visibility, editability |-> editability]
Snapshot(row) == [visibility |-> row.visibility, editability |-> row.editability]

\* f extended (or overwritten) at key k
Put(f, k, v) == [x \in DOMAIN f \cup {k} |-> IF x = k THEN v ELSE f[x]]
Drop(f, k) == [x \in DOMAIN f \ {k} |-> f[x]]

\* The state after the first login: the root directory exists
\* (get_or_create(path="")) with the model defaults, the first user is the
\* system owner.
Init ==
    /\ directories = (Root :> DirRow(NoDir, NoUser, "public", "restricted"))
    /\ dir_revisions = (Root :> << >>)
    /\ dir_permissions = {}
    /\ pages = << >>
    /\ page_revisions = << >>
    /\ page_permissions = {}
    /\ user_groups = [u \in Users |-> {}]
    /\ system_config = [owner |-> "u1"]
    /\ ops = 0
    /\ validation = NoValidation
    /\ propagation = NoPropagation
    /\ threads = [t \in ThreadIds |-> NoThread]
    /\ profiles = NoProfiles
    /\ request = NoRequest

\* ------------------------------------------------------------ directories
\* The stored rows: everything but the request counter, the response and
\* the validator observation.
Store ==
    <<directories, dir_revisions, dir_permissions, pages, page_revisions,
      page_permissions, user_groups, system_config>>

\* The handler answers the request of user u.
Responded(u, status) == request' = [user |-> u, status |-> status]

\* messages.error(...) and an early return: nothing is written.
Refused(u, status) == Responded(u, status) /\ UNCHANGED Store

\* _create_revision(directory, user): one more DirectoryRevision row holding
\* the directory's current visibility and editability.
_create_revision(revs, d, row) ==
    Put(revs, d, Append(IF d \in DOMAIN revs THEN revs[d] ELSE << >>,
                        Snapshot(row)))

directory_create(u, parent, visibility, editability) ==
    /\ ops < MaxOps
    /\ parent \in Dirs
    /\ FreeDirIds # {}
    /\ ops' = ops + 1
    /\ UNCHANGED <<validation, propagation, threads, profiles>>
    /\ IF parent # Root /\ ~can_edit_directory(RequestUser(u), parent)
       THEN Refused(u, "denied")
       ELSE IF is_editability_more_open_than_visibility(editability, visibility)
       THEN Refused(u, "invalid")
       ELSE LET d == Min(FreeDirIds)
                row == DirRow(parent, u, visibility, editability)
            IN /\ directories' = Put(directories, d, row)
               /\ dir_revisions' = _create_revision(dir_revisions, d, row)
               /\ Responded(u, "ok")
               /\ UNCHANGED <<dir_permissions, pages, page_revisions,
                              page_permissions, user_groups, system_config>>

directory_edit(u, d, visibility, editability) ==
    /\ ops < MaxOps
    /\ d \in Dirs \ {Root}
    /\ ops' = ops + 1
    /\ UNCHANGED <<validation, propagation, threads, profiles>>
    /\ IF ~can_edit_directory(RequestUser(u), d)
       THEN Refused(u, "denied")
       ELSE IF is_editability_more_open_than_visibility(editability, visibility)
       THEN Refused(u, "invalid")
       ELSE LET row == [directories[d] EXCEPT !.visibility = visibility,
                                              !.editability = editability]
            IN /\ directories' = Put(directories, d, row)
               /\ dir_revisions' = _create_revision(dir_revisions, d, row)
               /\ Responded(u, "ok")
               /\ UNCHANGED <<dir_permissions, pages, page_revisions,
                              page_permissions, user_groups, system_config>>

directory_edit_root(u, visibility, editability) ==
    /\ ops < MaxOps
    /\ ops' = ops + 1
    /\ UNCHANGED <<validation, propagation, threads, profiles>>
    /\ IF ~can_edit_directory(RequestUser(u), Root)
       THEN Refused(u, "denied")
       ELSE LET row == [directories[Root] EXCEPT !.visibility = visibility,
                                                 !.editability = editability]
            IN /\ directories' = Put(directories, Root, row)
               /\ dir_revisions' = _create_revision(dir_revisions, Root, row)
               /\ Responded(u, "ok")
               /\ UNCHANGED <<dir_permissions, pages, page_revisions,
                              page_permissions, user_groups, system_config>>

\* Variant: the form offers every directory the user can view.
DirectoryMoveForm_queryset_no_exclusion(user, d) ==
    {t \in Dirs : can_view_directory(user, t)}

\* DirectoryMoveForm: the choices are the directories other than the moved
\* one and its descendants that the user can view.
DirectoryMoveForm_queryset(user, d) ==
    {t \in Dirs \ ({d} \cup _collect_descendant_ids(d)) :
        can_view_directory(user, t)}

_move_directory(d, new_parent) ==
    Put(directories, d, [directories[d] EXCEPT !.parent = new_parent])

directory_move(u, d, new_parent) ==
    /\ ops < MaxOps
    /\ d \in Dirs \ {Root}
    /\ ops' = ops + 1
    /\ UNCHANGED <<validation, propagation, threads, profiles>>
    /\ IF ~can_edit_directory(RequestUser(u), d)
       THEN Refused(u, "denied")
       ELSE IF new_parent \notin DirectoryMoveForm_queryset(RequestUser(u), d)
       THEN Refused(u, "invalid")
       ELSE /\ directories' = _move_directory(d, new_parent)
            /\ Responded(u, "ok")
            /\ UNCHANGED <<dir_revisions, dir_permissions, pages,
                           page_revisions, page_permissions, user_groups,
                           system_config>>

directory_delete(u, d) ==
    /\ ops < MaxOps
    /\ d \in Dirs \ {Root}
    /\ ops' = ops + 1
    /\ UNCHANGED <<validation, propagation, threads, profiles>>
    /\ IF ~can_edit_directory(RequestUser(u), d)
       THEN Refused(u, "denied")
       ELSE IF Children(d) # {} \/ PagesIn(d) # {}
       THEN Refused(u, "invalid")
       ELSE /\ directories' = Drop(directories, d)
            /\ dir_revisions' = Drop(dir_revisions, d)
            /\ dir_permissions' = {perm \in dir_permissions : perm.directory # d}
            /\ Responded(u, "ok")
            /\ UNCHANGED <<pages, page_revisions, page_permissions,
                           user_groups, system_config>>

\* A permission row; exactly one of user and group is set.  Rows of equal
\* content differ in their primary keys: copy numbers them from 1.
DirPerm(d, user, group, permission_type) ==
    [directory |-> d, user |-> user, group |-> group,
     permission_type |-> permission_type, copy |-> 1]
PagePerm(p, user, group, permission_type) ==
    [page |-> p, user |-> user, group |-> group,
     permission_type |-> permission_type, copy |-> 1]

\* The rows the lookup of get_or_create matches.
_lookup(rows, row) == {r \in rows : [r EXCEPT !.copy = 1] = row}

\* Variant: objects.create(...), a row is inserted whatever exists.
_create(rows, row) ==
    rows \cup {[row EXCEPT !.copy = Cardinality(_lookup(rows, row)) + 1]}

\* objects.get_or_create(...): the row is inserted when the lookup is empty.
_get_or_create(rows, row) ==
    IF _lookup(rows, row) # {} THEN rows ELSE rows \cup {row}

\* get_or_create in a loop over the given rows.
RECURSIVE _get_or_create_all(_, _)
_get_or_create_all(rows, new_rows) ==
    IF new_rows = {} THEN rows
    ELSE LET row == CHOOSE r \in new_rows : TRUE
         IN _get_or_create_all(_get_or_create(rows, row), new_rows \ {row})

\* The principals a permission form can name.
Principals ==
    {[user |-> u, group |-> NoGroup] : u \in Users}
        \cup {[user |-> NoUser, group |-> g] : g \in Groups}

\* Variant: the add branch without the can_edit_directory gate.
directory_permissions_add_no_gate(u, d, principal, permission_type) ==
    /\ ops < MaxOps
    /\ d \in Dirs
    /\ ops' = ops + 1
    /\ UNCHANGED <<validation, propagation, threads, profiles>>
    /\ dir_permissions' =
           _get_or_create(dir_permissions,
                          DirPerm(d, principal.user, principal.group,
                                  permission_type))
    /\ Responded(u, "ok")
    /\ UNCHANGED <<directories, dir_revisions, pages, page_revisions,
                   page_permissions, user_groups, system_config>>

\* _directory_permissions_inner, "add": get_or_create of the row.
directory_permissions_add(u, d, principal, permission_type) ==
    /\ ops < MaxOps
    /\ d \in Dirs
    /\ ops' = ops + 1
    /\ UNCHANGED <<validation, propagation, threads, profiles>>
    /\ IF ~can_edit_directory(RequestUser(u), d)
       THEN Refused(u, "denied")
       ELSE /\ dir_permissions' =
                   _get_or_create(dir_permissions,
                                  DirPerm(d, principal.user, principal.group,
                                          permission_type))
            /\ Responded(u, "ok")
            /\ UNCHANGED <<directories, dir_revisions, pages, page_revisions,
                           page_permissions, user_groups, system_config>>

\* _directory_permissions_inner, "remove".
directory_permissions_remove(u, d, perm) ==
    /\ ops < MaxOps
    /\ d \in Dirs
    /\ perm \in dir_permissions /\ perm.directory = d
    /\ ops' = ops + 1
    /\ UNCHANGED <<validation, propagation, threads, profiles>>
    /\ IF ~can_edit_directory(RequestUser(u), d)
       THEN Refused(u, "denied")
       ELSE /\ dir_permissions' = dir_permissions \ {perm}
            /\ Responded(u, "ok")
            /\ UNCHANGED <<directories, dir_revisions, pages, page_revisions,
                           page_permissions, user_groups, system_config>>

\* apply_to_pages(pages, source_dir): the page rows after the loop.
apply_to_pages(page_rows, targets, source_row) ==
    [p \in DOMAIN page_rows |->
        IF p \in targets
        THEN [page_rows[p] EXCEPT !.visibility = source_row.visibility,
                                  !.editability = source_row.editability]
        ELSE page_rows[p]]

\* The PagePermission rows after apply_to_pages ran get_or_create for every
\* given page and every permission of the source directory.
apply_to_pages_permissions(rows, targets, dir_perms) ==
    _get_or_create_all(rows,
        {PagePerm(p, dp.user, dp.group, dp.permission_type) :
            p \in targets, dp \in dir_perms})

\* apply_to_dirs_recursive(directory): the directories the recursion visits.
apply_to_dirs_recursive(d) == _collect_descendant_ids(d)

\* Variant: the child directories are written whatever the scope.
_apply_child_dirs_any_scope(d, scope) == apply_to_dirs_recursive(d)
\* The child directories and the pages one run writes.
_apply_child_dirs(d, scope) ==
    IF scope = "recursive" THEN apply_to_dirs_recursive(d) ELSE {}
_apply_pages(d, scope) ==
    PagesIn(d) \cup UNION {PagesIn(c) : c \in _apply_child_dirs(d, scope)}

\* The rows after one run of the POST branch on directory d.
_applied_pages(d, scope) ==
    apply_to_pages(pages, _apply_pages(d, scope), directories[d])
\* Variant: the pages end with exactly the grants of the source directory.
_applied_page_permissions_replacing(d, scope) ==
    {r \in page_permissions : r.page \notin _apply_pages(d, scope)}
        \cup {PagePerm(p, dp.user, dp.group, dp.permission_type) :
                 p \in _apply_pages(d, scope),
                 dp \in {perm \in dir_permissions : perm.directory = d}}

_applied_page_permissions(d, scope) ==
    apply_to_pages_permissions(page_permissions, _apply_pages(d, scope),
        {perm \in dir_permissions : perm.directory = d})
\* Variant: each child directory copies from its own parent, level by level.
_applied_directories_from_parent(d, scope) ==
    [c \in Dirs |->
        IF c \in _apply_child_dirs(d, scope)
        THEN [directories[c] EXCEPT
                 !.visibility = directories[directories[c].parent].visibility,
                 !.editability = directories[directories[c].parent].editability]
        ELSE directories[c]]

_applied_directories(d, scope) ==
    [c \in Dirs |->
        IF c \in _apply_child_dirs(d, scope)
        THEN [directories[c] EXCEPT
                 !.visibility = directories[d].visibility,
                 !.editability = directories[d].editability]
        ELSE directories[c]]
_applied_dir_permissions(d, scope) ==
    _get_or_create_all(dir_permissions,
        {DirPerm(c, dp.user, dp.group, dp.permission_type) :
            c \in _apply_child_dirs(d, scope),
            dp \in {perm \in dir_permissions : perm.directory = d}})

_directory_apply_permissions_inner(u, d, scope) ==
    /\ ops < MaxOps
    /\ d \in Dirs
    /\ ops' = ops + 1
    /\ UNCHANGED <<validation, propagation, threads, profiles>>
    /\ IF ~can_edit_directory(RequestUser(u), d)
       THEN Refused(u, "denied")
       ELSE /\ pages' = _applied_pages(d, scope)
            /\ page_permissions' = _applied_page_permissions(d, scope)
            /\ directories' = _applied_directories(d, scope)
            /\ dir_permissions' = _applied_dir_permissions(d, scope)
            /\ Responded(u, "ok")
            /\ UNCHANGED <<dir_revisions, page_revisions, user_groups,
                           system_config>>

\* _directory_revert_inner: restore the revision's visibility and
\* editability, then record a new revision.
_directory_revert_inner(u, d, rev_num) ==
    /\ ops < MaxOps
    /\ d \in Dirs
    /\ rev_num \in 1..Len(dir_revisions[d])
    /\ ops' = ops + 1
    /\ UNCHANGED <<validation, propagation, threads, profiles>>
    /\ IF ~can_edit_directory(RequestUser(u), d)
       THEN Refused(u, "denied")
       ELSE LET revision == dir_revisions[d][rev_num]
                row == [directories[d] EXCEPT
                           !.visibility = revision.visibility,
                           !.editability = revision.editability]
            IN /\ directories' = Put(directories, d, row)
               /\ dir_revisions' = _create_revision(dir_revisions, d, row)
               /\ Responded(u, "ok")
               /\ UNCHANGED <<dir_permissions, pages, page_revisions,
                              page_permissions, user_groups, system_config>>

\* ------------------------------------------------------------------ pages
\* The directory_path field of the page form: blank, or a path.  A path
\* names an existing directory (new = 0), or one whose last `new` segments
\* do not exist yet below the existing directory `base`.
MaxNewSegments == 1
DirPathInputs ==
    {[blank |-> TRUE, base |-> NoDir, new |-> 0]}
        \cup {[blank |-> FALSE, base |-> b, new |-> k] :
                 b \in DirIds, k \in 0..MaxNewSegments}

\* The keys the missing segments get, nearest to `base` first.
RECURSIVE _first_free_ids(_, _)
_first_free_ids(free, k) ==
    IF k = 0 \/ free = {} THEN << >>
    ELSE <<Min(free)>> \o _first_free_ids(free \ {Min(free)}, k - 1)

_new_segment_ids(k) == _first_free_ids(FreeDirIds, k)

\* _resolve_or_create_directory(dir_path, user): the directory rows after
\* the call.  A created segment gets the model defaults (public,
\* restricted), the user as owner, and no revision.
_resolve_or_create_directory(dir_path, u) ==
    LET ids == _new_segment_ids(dir_path.new)
    IN [d \in Dirs \cup {ids[i] : i \in 1..Len(ids)} |->
           IF d \in Dirs THEN directories[d]
           ELSE LET i == CHOOSE j \in 1..Len(ids) : ids[j] = d
                IN DirRow(IF i = 1 THEN dir_path.base ELSE ids[i - 1],
                          u, "public", "restricted")]

\* The directory the call returns.
_resolved_directory(dir_path) ==
    IF dir_path.new = 0 THEN dir_path.base
    ELSE _new_segment_ids(dir_path.new)[dir_path.new]

\* A dir_path the store can resolve within the available keys.
_dir_path_ok(dir_path) ==
    \/ dir_path.blank
    \/ /\ dir_path.base \in Dirs
       /\ dir_path.new = 0 => dir_path.base # Root
       /\ dir_path.new <= Cardinality(FreeDirIds)

\* grant_access_<username> of a mentioned user: none, or one grant.
MentionInputs ==
    {[user |-> NoUser, level |-> "none"]}
        \cup {[user |-> m, level |-> l] : m \in Users, l \in {"view", "edit"}}

\* process_mentions: the PagePermission rows it adds for page p.
process_mentions(p, editor, mention) ==
    IF mention.user = NoUser \/ mention.user = editor THEN {}
    ELSE {PagePerm(p, mention.user, NoGroup, mention.level)}

\* Rows for directories created without a revision.
_with_revision_keys(revs, dirs) ==
    [d \in DOMAIN dirs |-> IF d \in DOMAIN revs THEN revs[d] ELSE << >>]

page_create(u, path, dir_path, visibility, editability, mention) ==
    /\ ops < MaxOps
    /\ path = NoDir \/ path \in Dirs \ {Root}
    /\ _dir_path_ok(dir_path)
    /\ FreePageIds # {}
    /\ ops' = ops + 1
    /\ UNCHANGED <<validation, propagation, threads, profiles>>
    /\ IF path # NoDir /\ ~can_edit_directory(RequestUser(u), path)
       THEN Refused(u, "denied")
       ELSE LET p == Min(FreePageIds)
                new_dirs == IF dir_path.blank THEN directories
                            ELSE _resolve_or_create_directory(dir_path, u)
                directory == IF dir_path.blank THEN path
                             ELSE _resolved_directory(dir_path)
                rejected ==
                    _validate_page(visibility, editability, directory,
                                   IF directory = NoDir THEN ""
                                   ELSE new_dirs[directory].visibility) # "ok"
            IN /\ directories' = new_dirs
               /\ dir_revisions' = _with_revision_keys(dir_revisions, new_dirs)
               /\ IF rejected
                  THEN /\ Responded(u, "invalid")
                       /\ UNCHANGED <<pages, page_revisions, page_permissions>>
                  ELSE /\ pages' = Put(pages, p,
                               PageRow(directory, u, visibility, editability))
                       /\ page_revisions' = Put(page_revisions, p, 1)
                       /\ page_permissions' =
                              _get_or_create_all(page_permissions,
                                                 process_mentions(p, u, mention))
                       /\ Responded(u, "ok")
               /\ UNCHANGED <<dir_permissions, user_groups, system_config>>

page_edit(u, p, dir_path, visibility, editability, mention) ==
    /\ ops < MaxOps
    /\ p \in PageSet
    /\ _dir_path_ok(dir_path)
    /\ ops' = ops + 1
    /\ UNCHANGED <<validation, propagation, threads, profiles>>
    /\ IF ~can_edit_page(RequestUser(u), p)
       THEN Refused(u, "denied")
       ELSE LET new_dirs == IF dir_path.blank THEN directories
                            ELSE _resolve_or_create_directory(dir_path, u)
                directory == IF dir_path.blank THEN NoDir
                             ELSE _resolved_directory(dir_path)
                rejected ==
                    _validate_page(visibility, editability, directory,
                                   IF directory = NoDir THEN ""
                                   ELSE new_dirs[directory].visibility) # "ok"
            IN /\ directories' = new_dirs
               /\ dir_revisions' = _with_revision_keys(dir_revisions, new_dirs)
               /\ IF rejected
                  THEN /\ Responded(u, "invalid")
                       /\ UNCHANGED <<pages, page_revisions, page_permissions>>
                  ELSE /\ pages' = Put(pages, p,
                               [pages[p] EXCEPT !.directory = directory,
                                                !.visibility = visibility,
                                                !.editability = editability])
                       /\ page_revisions' = Put(page_revisions, p,
                                                page_revisions[p] + 1)
                       /\ page_permissions' =
                              _get_or_create_all(page_permissions,
                                                 process_mentions(p, u, mention))
                       /\ Responded(u, "ok")
               /\ UNCHANGED <<dir_permissions, user_groups, system_config>>

\* PageMoveForm: every non-root directory but the current one; when a user
\* is passed, only the directories that user can view.
PageMoveForm_queryset(exclude_current, user_given, user) ==
    {d \in (Dirs \ {Root}) \ {exclude_current} :
        user_given => can_view_directory(user, d)}

\* page_move builds the form with exclude_current only, user is None.
page_move_form(u, p) ==
    PageMoveForm_queryset(pages[p].directory, FALSE, RequestUser(u))

page_move(u, p, new_directory) ==
    /\ ops < MaxOps
    /\ p \in PageSet
    /\ ops' = ops + 1
    /\ UNCHANGED <<validation, propagation, threads, profiles>>
    /\ IF ~can_edit_page(RequestUser(u), p)
       THEN Refused(u, "denied")
       ELSE IF new_directory \notin page_move_form(u, p) \cup {NoDir}
       THEN Refused(u, "invalid")
       ELSE IF /\ new_directory # NoDir
               /\ is_more_open_than(pages[p].visibility,
                                    directories[new_directory].visibility)
       THEN Refused(u, "invalid")
       ELSE /\ pages' = Put(pages, p,
                            [pages[p] EXCEPT !.directory = new_directory])
            /\ Responded(u, "ok")
            /\ UNCHANGED <<directories, dir_revisions, dir_permissions,
                           page_revisions, page_permissions, user_groups,
                           system_config>>

\* page_revert restores title and content; of the modelled fields only the
\* revision list changes.
page_revert(u, p, rev_num) ==
    /\ ops < MaxOps
    /\ p \in PageSet
    /\ rev_num \in 1..page_revisions[p]
    /\ ops' = ops + 1
    /\ UNCHANGED <<validation, propagation, threads, profiles>>
    /\ IF ~can_edit_page(RequestUser(u), p)
       THEN Refused(u, "denied")
       ELSE /\ page_revisions' = Put(page_revisions, p, page_revisions[p] + 1)
            /\ Responded(u, "ok")
            /\ UNCHANGED <<directories, dir_revisions, dir_permissions, pages,
                           page_permissions, user_groups, system_config>>

page_permissions_add(u, p, principal, permission_type) ==
    /\ ops < MaxOps
    /\ p \in PageSet
    /\ ops' = ops + 1
    /\ UNCHANGED <<validation, propagation, threads, profiles>>
    /\ IF ~can_edit_page(RequestUser(u), p)
       THEN Refused(u, "denied")
       ELSE /\ page_permissions' =
                   _get_or_create(page_permissions,
                                  PagePerm(p, principal.user, principal.group,
                                           permission_type))
            /\ Responded(u, "ok")
            /\ UNCHANGED <<directories, dir_revisions, dir_permissions, pages,
                           page_revisions, user_groups, system_config>>

page_permissions_remove(u, p, perm) ==
    /\ ops < MaxOps
    /\ p \in PageSet
    /\ perm \in page_permissions /\ perm.page = p
    /\ ops' = ops + 1
    /\ UNCHANGED <<validation, propagation, threads, profiles>>
    /\ IF ~can_edit_page(RequestUser(u), p)
       THEN Refused(u, "denied")
       ELSE /\ page_permissions' = page_permissions \ {perm}
            /\ Responded(u, "ok")
            /\ UNCHANGED <<directories, dir_revisions, dir_permissions, pages,
                           page_revisions, user_groups, system_config>>

\* ----------------------------------------------------------------- groups
\* _can_manage_groups(user): is_staff or system owner; login_view makes the
\* system owner the staff user.
_can_manage_groups(user) == is_system_owner(user)

group_add_member(u, member, g) ==
    /\ ops < MaxOps
    /\ g \notin user_groups[member]
    /\ ops' = ops + 1
    /\ UNCHANGED <<validation, propagation, threads, profiles>>
    /\ IF ~_can_manage_groups(RequestUser(u))
       THEN Refused(u, "denied")
       ELSE /\ user_groups' = [user_groups EXCEPT ![member] = @ \cup {g}]
            /\ Responded(u, "ok")
            /\ UNCHANGED <<directories, dir_revisions, dir_permissions, pages,
                           page_revisions, page_permissions, system_config>>

group_remove_member(u, member, g) ==
    /\ ops < MaxOps
    /\ g \in user_groups[member]
    /\ ops' = ops + 1
    /\ UNCHANGED <<validation, propagation, threads, profiles>>
    /\ IF ~_can_manage_groups(RequestUser(u))
       THEN Refused(u, "denied")
       ELSE /\ user_groups' = [user_groups EXCEPT ![member] = @ \ {g}]
            /\ Responded(u, "ok")
            /\ UNCHANGED <<directories, dir_revisions, dir_permissions, pages,
                           page_revisions, page_permissions, system_config>>

\* ---------------------------------------------------------- specification
\* One more request is served while the request budget lasts.
Next ==
    \/ ops < MaxOps /\ \E u \in Users, parent \in DirIds, v \in Visibility, e \in Editability :
              directory_create(u, parent, v, e)
    \/ ops < MaxOps /\ \E u \in Users, d \in DirIds, v \in Visibility, e \in Editability :
              directory_edit(u, d, v, e)
    \/ ops < MaxOps /\ \E u \in Users, v \in Visibility, e \in Editability :
              directory_edit_root(u, v, e)
    \/ ops < MaxOps /\ \E u \in Users, d \in DirIds, t \in DirIds : directory_move(u, d, t)
    \/ ops < MaxOps /\ \E u \in Users, d \in DirIds : directory_delete(u, d)
    \/ ops < MaxOps /\ \E u \in Users, d \in DirIds, pr \in Principals, t \in PermissionType :
              directory_permissions_add(u, d, pr, t)
    \/ ops < MaxOps /\ \E u \in Users, d \in DirIds, perm \in dir_permissions :
              directory_permissions_remove(u, d, perm)
    \/ ops < MaxOps /\ \E u \in Users, d \in DirIds, scope \in {"direct", "recursive"} :
              _directory_apply_permissions_inner(u, d, scope)
    \/ ops < MaxOps /\ \E u \in Users, d \in DirIds, n \in 1..MaxOps :
              _directory_revert_inner(u, d, n)
    \/ ops < MaxOps /\ \E u \in Users, path \in DirIds \cup {NoDir}, dp \in DirPathInputs,
             v \in Visibility, e \in Editability, m \in MentionInputs :
              page_create(u, path, dp, v, e, m)
    \/ ops < MaxOps /\ \E u \in Users, p \in PageIds, dp \in DirPathInputs,
             v \in Visibility, e \in Editability, m \in MentionInputs :
              page_edit(u, p, dp, v, e, m)
    \/ ops < MaxOps /\ \E u \in Users, p \in PageIds, t \in DirIds \cup {NoDir} :
              page_move(u, p, t)
    \/ ops < MaxOps /\ \E u \in Users, p \in PageIds, n \in 1..MaxOps : page_revert(u, p, n)
    \/ ops < MaxOps /\ \E u \in Users, p \in PageIds, pr \in Principals, t \in PermissionType :
              page_permissions_add(u, p, pr, t)
    \/ ops < MaxOps /\ \E u \in Users, p \in PageIds, perm \in page_permissions :
              page_permissions_remove(u, p, perm)
    \/ ops < MaxOps /\ \E u \in Users, m \in Users, g \in Groups : group_add_member(u, m, g)
    \/ ops < MaxOps /\ \E u \in Users, m \in Users, g \in Groups : group_remove_member(u, m, g)

Spec == Init /\ [][Next]_vars

\* The same handlers, started from a state in which the system owner has
\* already put u2 into the group (group_add_member).
InitMember ==
    /\ directories = (Root :> DirRow(NoDir, NoUser, "public", "restricted"))
    /\ dir_revisions = (Root :> << >>)
    /\ dir_permissions = {}
    /\ pages = << >>
    /\ page_revisions = << >>
    /\ page_permissions = {}
    /\ user_groups = [u \in Users |-> IF u = "u2" THEN {"g1"} ELSE {}]
    /\ system_config = [owner |-> "u1"]
    /\ ops = 0
    /\ validation = NoValidation
    /\ propagation = NoPropagation
    /\ threads = [t \in ThreadIds |-> NoThread]
    /\ profiles = NoProfiles
    /\ request = NoRequest

SpecMember == InitMember /\ [][Next]_vars

\* The same handlers, started from a state two requests have led to: u2
\* has created the private directory 1 under the root and has granted View
\* on it to the group.  The exploration serves two more requests.
InitShared ==
    /\ directories =
           (Root :> DirRow(NoDir, NoUser, "public", "restricted"))
               @@ (1 :> DirRow(Root, "u2", "private", "restricted"))
    /\ dir_revisions =
           (Root :> << >>)
               @@ (1 :> <<[visibility |-> "private",
                           editability |-> "restricted"]>>)
    /\ dir_permissions = {DirPerm(1, NoUser, "g1", "view")}
    /\ pages = << >>
    /\ page_revisions = << >>
    /\ page_permissions = {}
    /\ user_groups = [u \in Users |-> {}]
    /\ system_config = [owner |-> "u1"]
    /\ ops = 1
    /\ validation = NoValidation
    /\ propagation = NoPropagation
    /\ threads = [t \in ThreadIds |-> NoThread]
    /\ profiles = NoProfiles
    /\ request = [user |-> "u2", status |-> "ok"]

SpecShared == InitShared /\ [][Next]_vars

\* --------------------------------------------------------------- listings
\* What the read-only views hand to the requester `user`: the directories
\* and pages whose titles appear in the response.

\* root_view
root_view_subdirectories(user) ==
    {d \in Dirs \ {Root} :
        /\ directories[d].parent \in {Root, NoDir}
        /\ can_view_directory(user, d)}
root_view_pages(user) ==
    {p \in PageSet :
        /\ pages[p].directory \in {Root, NoDir}
        /\ can_view_page(user, p)}

\* directory_detail: 404 unless the directory can be viewed
directory_detail_subdirectories(user, d) ==
    IF ~can_view_directory(user, d) THEN {}
    ELSE {c \in Children(d) : can_view_directory(user, c)}
directory_detail_pages(user, d) ==
    IF ~can_view_directory(user, d) THEN {}
    ELSE {p \in PagesIn(d) : can_view_page(user, p)}

\* Directory.get_ancestors
RECURSIVE get_ancestors(_)
get_ancestors(d) ==
    IF directories[d].parent = NoDir THEN {}
    ELSE {directories[d].parent} \cup get_ancestors(directories[d].parent)

\* Directory.get_breadcrumbs: the directories named after "Home"
get_breadcrumbs(d) == (get_ancestors(d) \cup {d}) \ {Root}

directory_detail_breadcrumbs(user, d) ==
    IF ~can_view_directory(user, d) THEN {} ELSE get_breadcrumbs(d)

\* _render_page_detail: 404 unless the page can be viewed
_render_page_detail_breadcrumbs(user, p) ==
    IF ~can_view_page(user, p) \/ pages[p].directory = NoDir THEN {}
    ELSE get_breadcrumbs(pages[p].directory)

\* directory_search_htmx (login required), for the children of `parent`
directory_search_htmx(user, parent) ==
    IF ~user.is_authenticated THEN {}
    ELSE {d \in Dirs \ {Root} :
             /\ directories[d].parent = parent
             /\ can_view_directory(user, d)}

\* page_search_htmx (login required)
page_search_htmx(user) ==
    IF ~user.is_authenticated THEN {} ELSE PageSet

\* directory_move, GET: the choices of the form (login and edit required)
directory_move_choices(user, d) ==
    IF ~user.is_authenticated \/ d = Root \/ ~can_edit_directory(user, d)
    THEN {}
    ELSE DirectoryMoveForm_queryset(user, d)

\* page_move, GET: the choices of the form (login and edit required)
page_move_choices(user, p) ==
    IF ~user.is_authenticated \/ ~can_edit_page(user, p) THEN {}
    ELSE PageMoveForm_queryset(pages[p].directory, FALSE, user)

\* -------------------------------------------------------------- responses
\* The outcome of a GET on an endpoint addressed at a page or directory:
\* "not_found" (Http404), "login" (the redirect of @login_required),
\* "denied" (messages.error and a redirect to the target's own address) or
\* "served".  `exists` is whether the address names a stored row.
Endpoints ==
    {"detail", "history", "edit", "move", "delete", "permissions", "revert"}

\* @login_required: every endpoint but detail and history carries it.
login_required(endpoint) == endpoint \notin {"detail", "history"}

\* get_object_or_404 and the gate that follows it, for a page.
page_gate(endpoint, user, p) ==
    IF endpoint \in {"detail", "history"}
    THEN IF can_view_page(user, p) THEN "served" ELSE "not_found"
    ELSE IF endpoint = "delete"
    THEN IF pages[p].owner = user.id \/ is_system_owner(user)
         THEN "served" ELSE "denied"
    ELSE IF can_edit_page(user, p) THEN "served" ELSE "denied"

page_response(endpoint, user, p, exists) ==
    IF login_required(endpoint) /\ ~user.is_authenticated THEN "login"
    ELSE IF ~exists THEN "not_found"
    ELSE page_gate(endpoint, user, p)

\* The same for a directory.
directory_gate(endpoint, user, d) ==
    IF endpoint \in {"detail", "history"}
    THEN IF can_view_directory(user, d) THEN "served" ELSE "not_found"
    ELSE IF can_edit_directory(user, d) THEN "served" ELSE "denied"

directory_response(endpoint, user, d, exists) ==
    IF login_required(endpoint) /\ ~user.is_authenticated THEN "login"
    ELSE IF ~exists THEN "not_found"
    ELSE directory_gate(endpoint, user, d)

\* ------------------------------------- propagation, one write at a time
\* _directory_apply_permissions_inner runs outside any transaction: every
\* save() and every get_or_create() is committed on its own.  Here the POST
\* branch is taken apart into these writes, in the order of the loops.

RECURSIVE _ids_in_order(_)
_ids_in_order(ids) ==
    IF ids = {} THEN << >>
    ELSE <<Min(ids)>> \o _ids_in_order(ids \ {Min(ids)})

RECURSIVE _rows_in_order(_)
_rows_in_order(rows) ==
    IF rows = {} THEN << >>
    ELSE LET row == CHOOSE r \in rows : TRUE
         IN <<row>> \o _rows_in_order(rows \ {row})

\* page.save(update_fields=...) / child.save(update_fields=...)
_save_write(kind, target, source_row) ==
    [kind |-> kind, target |-> target,
     visibility |-> source_row.visibility,
     editability |-> source_row.editability]

\* for dp in dir_perms: ...objects.get_or_create(**kwargs)
_permission_writes(kind, target, dir_perms) ==
    [i \in 1..Len(dir_perms) |->
        [kind |-> kind, target |-> target, user |-> dir_perms[i].user,
         group |-> dir_perms[i].group,
         permission_type |-> dir_perms[i].permission_type]]

RECURSIVE apply_to_pages_writes(_, _, _)
apply_to_pages_writes(page_seq, source_row, dir_perms) ==
    IF page_seq = << >> THEN << >>
    ELSE <<_save_write("page", Head(page_seq), source_row)>>
             \o _permission_writes("page_permission", Head(page_seq), dir_perms)
             \o apply_to_pages_writes(Tail(page_seq), source_row, dir_perms)

RECURSIVE apply_to_dirs_recursive_writes(_, _, _)
apply_to_dirs_recursive_writes(children, source_row, dir_perms) ==
    IF children = << >> THEN << >>
    ELSE LET child == Head(children)
         IN <<_save_write("directory", child, source_row)>>
                \o _permission_writes("directory_permission", child, dir_perms)
                \o apply_to_pages_writes(_ids_in_order(PagesIn(child)),
                                         source_row, dir_perms)
                \o apply_to_dirs_recursive_writes(
                       _ids_in_order(Children(child)), source_row, dir_perms)
                \o apply_to_dirs_recursive_writes(Tail(children), source_row,
                                                  dir_perms)

\* All writes of one POST on directory d.
_apply_writes(d, scope) ==
    LET dir_perms == _rows_in_order({perm \in dir_permissions :
                                        perm.directory = d})
    IN apply_to_pages_writes(_ids_in_order(PagesIn(d)), directories[d],
                             dir_perms)
           \o (IF scope = "recursive"
               THEN apply_to_dirs_recursive_writes(
                        _ids_in_order(Children(d)), directories[d], dir_perms)
               ELSE << >>)

\* What propagation writes.
PropagationStore == <<pages, page_permissions, directories, dir_permissions>>

\* The permission check and the start of the POST branch.
apply_begin(u, d, scope) ==
    /\ ops < MaxOps
    /\ propagation.status # "running"
    /\ d \in Dirs
    /\ ops' = ops + 1
    /\ UNCHANGED <<validation, Store, threads, profiles>>
    /\ IF ~can_edit_directory(RequestUser(u), d)
       THEN /\ Responded(u, "denied")
            /\ UNCHANGED propagation
       ELSE /\ propagation' =
                   [status |-> "running", user |-> u,
                    todo |-> _apply_writes(d, scope),
                    before |-> PropagationStore,
                    after |-> <<_applied_pages(d, scope),
                                _applied_page_permissions(d, scope),
                                _applied_directories(d, scope),
                                _applied_dir_permissions(d, scope)>>]
            /\ Responded(u, "none")

\* The next save() or get_or_create(), committed at once.
apply_write ==
    /\ propagation.status = "running"
    /\ propagation.todo # << >>
    /\ LET w == Head(propagation.todo)
       IN /\ pages' =
                 IF w.kind = "page"
                 THEN apply_to_pages(pages, {w.target}, w)
                 ELSE pages
          /\ page_permissions' =
                 IF w.kind = "page_permission"
                 THEN _get_or_create(page_permissions,
                          PagePerm(w.target, w.user, w.group, w.permission_type))
                 ELSE page_permissions
          /\ directories' =
                 IF w.kind = "directory"
                 THEN [directories EXCEPT
                          ![w.target].visibility = w.visibility,
                          ![w.target].editability = w.editability]
                 ELSE directories
          /\ dir_permissions' =
                 IF w.kind = "directory_permission"
                 THEN _get_or_create(dir_permissions,
                          DirPerm(w.target, w.user, w.group, w.permission_type))
                 ELSE dir_permissions
    /\ propagation' = [propagation EXCEPT !.todo = Tail(propagation.todo)]
    /\ UNCHANGED <<dir_revisions, page_revisions, user_groups, system_config,
                   ops, validation, request, threads, profiles>>

\* The loops are done: messages.success and the redirect.
apply_finish ==
    /\ propagation.status = "running"
    /\ propagation.todo = << >>
    /\ propagation' = [propagation EXCEPT !.status = "done"]
    /\ Responded(propagation.user, "ok")
    /\ UNCHANGED <<Store, ops, validation, threads, profiles>>

\* The request ends before its loops do (an exception from a save(), a
\* lost database connection, a killed worker).  No transaction is open, so
\* the writes made so far stay.
apply_fail ==
    /\ propagation.status = "running"
    /\ propagation.todo # << >>
    /\ propagation' = [propagation EXCEPT !.status = "failed", !.todo = << >>]
    /\ Responded(propagation.user, "error")
    /\ UNCHANGED <<Store, ops, validation, threads, profiles>>

\* A state three requests have led to: u2 has created the private
\* directory 1, has granted View on it to the group, and has created a
\* public page under the new directory 2 inside directory 1.
InitPropagation ==
    /\ directories =
           (Root :> DirRow(NoDir, NoUser, "public", "restricted"))
               @@ (1 :> DirRow(Root, "u2", "private", "restricted"))
               @@ (2 :> DirRow(1, "u2", "public", "restricted"))
    /\ dir_revisions =
           (Root :> << >>)
               @@ (1 :> <<[visibility |-> "private",
                           editability |-> "restricted"]>>)
               @@ (2 :> << >>)
    /\ dir_permissions = {DirPerm(1, NoUser, "g1", "view")}
    /\ pages = (1 :> PageRow(2, "u2", "public", "restricted"))
    /\ page_revisions = (1 :> 1)
    /\ page_permissions = {}
    /\ user_groups = [u \in Users |-> {}]
    /\ system_config = [owner |-> "u1"]
    /\ ops = 0
    /\ validation = NoValidation
    /\ request = [user |-> "u2", status |-> "ok"]
    /\ propagation = NoPropagation
    /\ threads = [t \in ThreadIds |-> NoThread]
    /\ profiles = NoProfiles

NextPropagation ==
    \/ \E u \in Users, d \in DirIds, scope \in {"direct", "recursive"} :
           apply_begin(u, d, scope)
    \/ apply_write
    \/ apply_finish
    \/ apply_fail

SpecPropagation == InitPropagation /\ [][NextPropagation]_vars

\* ------------------------------------------ the validator on its own
\* Values a caller can hand to the validator predicates: the choices of the
\* model fields, and a value outside them (the .get(..., 0) default).
VisibilityInputs == Visibility \cup {""}
EditabilityInputs == Editability \cup {""}

StoreUntouched ==
    UNCHANGED <<directories, dir_revisions, dir_permissions, pages,
                page_revisions, page_permissions, user_groups, system_config,
                ops, request, propagation, threads, profiles>>

InitValidator ==
    /\ directories = (Root :> DirRow(NoDir, NoUser, "public", "restricted"))
    /\ dir_revisions = (Root :> << >>)
    /\ dir_permissions = {}
    /\ pages = << >>
    /\ page_revisions = << >>
    /\ page_permissions = {}
    /\ user_groups = [u \in Users |-> {}]
    /\ system_config = [owner |-> "u1"]
    /\ ops = 0
    /\ request = NoRequest
    /\ propagation = NoPropagation
    /\ threads = [t \in ThreadIds |-> NoThread]
    /\ profiles = NoProfiles
    /\ \E pv \in VisibilityInputs, dv \in VisibilityInputs,
          e \in EditabilityInputs :
           validation = [NoValidation EXCEPT !.page_visibility = pv,
                                             !.directory_visibility = dv,
                                             !.editability = e]

Verdict(violation) == IF violation THEN "violation" ELSE "accepted"

check_is_more_open_than ==
    /\ validation.more_open = "unchecked"
    /\ validation' =
           [validation EXCEPT !.more_open =
               Verdict(is_more_open_than(validation.page_visibility,
                                         validation.directory_visibility))]
    /\ StoreUntouched

check_is_editability_more_open_than_visibility ==
    /\ validation.editability_more_open = "unchecked"
    /\ validation' =
           [validation EXCEPT !.editability_more_open =
               Verdict(is_editability_more_open_than_visibility(
                           validation.editability,
                           validation.page_visibility))]
    /\ StoreUntouched

check_validate_page ==
    /\ validation.outcome = "unchecked"
    /\ validation' =
           [validation EXCEPT !.outcome =
               _validate_page(validation.page_visibility,
                              validation.editability, Root,
                              validation.directory_visibility)]
    /\ StoreUntouched

NextValidator ==
    \/ check_is_more_open_than
    \/ check_is_editability_more_open_than_visibility
    \/ check_validate_page

SpecValidator == InitValidator /\ [][NextValidator]_vars

\* ------------------------------------------------------------- signing in
\* login_view and verify_view run outside any transaction and take no lock:
\* every query below is a step of its own, and the steps of requests served
\* side by side interleave.  Each worker serves one request.

\* No SystemConfig row is stored: SystemConfig.objects.exists() is False and
\* .get(pk=1) raises DoesNotExist.
NoSystemConfig == [owner |-> "DoesNotExist"]

\* secrets.token_urlsafe(32): the token made by worker t is unlike the token
\* made by any other worker and is never empty.
token_urlsafe(t) == t

\* hashlib.sha256(raw_token.encode()).hexdigest(): one to one, and no raw
\* token is its own hash.
sha256(raw_token) == raw_token + MaxThreads

\* The values a caller can put in the token parameter of a sign-in link:
\* nothing, a raw token, or a stored hash.
TokenInputs ==
    {NoToken} \cup {token_urlsafe(t) : t \in ThreadIds}
        \cup {sha256(token_urlsafe(t)) : t \in ThreadIds}

\* UserProfile.verify_magic_token on the profile object the request holds.
verify_magic_token(magic_link_token, raw_token, expired) ==
    IF magic_link_token = NoToken THEN FALSE
    ELSE IF expired THEN FALSE
    ELSE sha256(raw_token) = magic_link_token

SignInThread(kind, pc, u, token, profile_token, result) ==
    [kind |-> kind, pc |-> pc, user |-> u, token |-> token,
     profile_token |-> profile_token, result |-> result]

\* A step that only moves a request on: nothing stored is written.
ThreadStoreUnchanged ==
    UNCHANGED <<directories, dir_revisions, dir_permissions, pages,
                page_revisions, page_permissions, user_groups, system_config,
                ops, validation, request, propagation, profiles>>

\* login_view, POST with a valid email: get_or_create of the user and of the
\* profile.
login_view_begin(t, u) ==
    /\ threads[t] = NoThread
    /\ threads' = [threads EXCEPT
           ![t] = SignInThread("login", "exists", u, NoToken,
                               profiles[u].magic_link_token, "none")]
    /\ ThreadStoreUnchanged

\* if not SystemConfig.objects.exists()
login_view_exists(t) ==
    /\ threads[t].kind = "login" /\ threads[t].pc = "exists"
    /\ threads' = [threads EXCEPT
           ![t].pc = IF system_config # NoSystemConfig THEN "token"
                     ELSE "create"]
    /\ ThreadStoreUnchanged

\* Variant: the row is written with save(), which updates the row with
\* pk = 1 when it is there.
SystemConfig_objects_save(t) ==
    /\ system_config' = [owner |-> threads[t].user]
    /\ threads' = [threads EXCEPT ![t].pc = "token"]

\* SystemConfig.objects.create(owner=user): save(force_insert=True) with
\* pk = 1; the INSERT raises IntegrityError when the row is there, and the
\* request ends in a server error.
SystemConfig_objects_create(t) ==
    IF system_config = NoSystemConfig
    THEN /\ system_config' = [owner |-> threads[t].user]
         /\ threads' = [threads EXCEPT ![t].pc = "token"]
    ELSE /\ system_config' = system_config
         /\ threads' = [threads EXCEPT ![t].pc = "done",
                                       ![t].result = "IntegrityError"]

login_view_create(t) ==
    /\ threads[t].kind = "login" /\ threads[t].pc = "create"
    /\ SystemConfig_objects_create(t)
    /\ UNCHANGED <<directories, dir_revisions, dir_permissions, pages,
                   page_revisions, page_permissions, user_groups, ops,
                   validation, request, propagation, profiles>>

\* profile.set_magic_token(raw_token); profile.save(); the raw token is
\* mailed.
login_view_token(t) ==
    /\ threads[t].kind = "login" /\ threads[t].pc = "token"
    /\ profiles' = [profiles EXCEPT
           ![threads[t].user].magic_link_token = sha256(token_urlsafe(t))]
    /\ threads' = [threads EXCEPT ![t].pc = "done",
                                  ![t].token = token_urlsafe(t),
                                  ![t].result = "sent"]
    /\ UNCHANGED <<directories, dir_revisions, dir_permissions, pages,
                   page_revisions, page_permissions, user_groups, ops,
                   validation, request, propagation, system_config>>

\* verify_view up to the profile read: the link's parameters, then
\* User.objects.get and user.profile.
verify_view_begin(t, u, token) ==
    /\ threads[t] = NoThread
    /\ threads' = [threads EXCEPT ![t] =
           IF token = NoToken
           THEN SignInThread("verify", "done", u, token, NoToken,
                             "invalid_link")
           ELSE SignInThread("verify", "verify", u, token,
                             profiles[u].magic_link_token, "none")]
    /\ ThreadStoreUnchanged

\* verify_view from profile.verify_magic_token on: the check on the profile
\* object read before, then clear_magic_token, profile.save() and login.
verify_view_verify(t, expired) ==
    /\ threads[t].kind = "verify" /\ threads[t].pc = "verify"
    /\ IF verify_magic_token(threads[t].profile_token, threads[t].token,
                             expired)
       THEN /\ profiles' = [profiles EXCEPT
                   ![threads[t].user].magic_link_token = NoToken]
            /\ threads' = [threads EXCEPT ![t].pc = "done",
                                          ![t].result = "signed_in"]
       ELSE /\ profiles' = profiles
            /\ threads' = [threads EXCEPT ![t].pc = "done",
                                          ![t].result = "rejected"]
    /\ UNCHANGED <<directories, dir_revisions, dir_permissions, pages,
                   page_revisions, page_permissions, user_groups, ops,
                   validation, request, propagation, system_config>>

\* A fresh installation: the root directory, no SystemConfig row, no token.
InitSignIn ==
    /\ directories = (Root :> DirRow(NoDir, NoUser, "public", "restricted"))
    /\ dir_revisions = (Root :> << >>)
    /\ dir_permissions = {}
    /\ pages = << >>
    /\ page_revisions = << >>
    /\ page_permissions = {}
    /\ user_groups = [u \in Users |-> {}]
    /\ system_config = NoSystemConfig
    /\ ops = 0
    /\ validation = NoValidation
    /\ request = NoRequest
    /\ propagation = NoPropagation
    /\ threads = [t \in ThreadIds |-> NoThread]
    /\ profiles = NoProfiles

NextSignIn ==
    \/ \E t \in ThreadIds, u \in Users : login_view_begin(t, u)
    \/ \E t \in ThreadIds : login_view_exists(t)
    \/ \E t \in ThreadIds : login_view_create(t)
    \/ \E t \in ThreadIds : login_view_token(t)
    \/ \E t \in ThreadIds, u \in Users, token \in TokenInputs :
           verify_view_begin(t, u, token)
    \/ \E t \in ThreadIds, expired \in BOOLEAN : verify_view_verify(t, expired)

SpecSignIn == InitSignIn /\ [][NextSignIn]_vars

\* --------------------------------------------- root_view, one check at a time
\* root_view filters the subdirectories with one can_view_directory call per
\* row, all on the same request.user object; requests of other workers are
\* served between the calls.

\* request.user after a can_view_directory(user, d) call: the call that gets
\* as far as _user_or_group_q leaves the group ids on the object.
_after_can_view_directory(user, d) ==
    IF /\ d # Root
       /\ directories[d].visibility = "private"
       /\ user.is_authenticated
       /\ ~is_system_owner(user)
       /\ directories[d].owner # user.id
    THEN UserObject(user.id, TRUE, _user_group_ids(user))
    ELSE user

\* root_view up to the evaluation of all_subdirs.
root_view_begin(t, u) ==
    /\ threads[t] = NoThread
    /\ threads' = [threads EXCEPT ![t] =
           [kind |-> "root_view", pc |-> "filter", user |-> RequestUser(u),
            todo |-> _ids_in_order({d \in Dirs \ {Root} :
                         directories[d].parent \in {Root, NoDir}}),
            subdirectories |-> {}, pages |-> {}]]
    /\ ThreadStoreUnchanged

\* One turn of [d for d in all_subdirs if can_view_directory(request.user, d)].
root_view_filter(t) ==
    /\ threads[t].kind = "root_view" /\ threads[t].pc = "filter"
    /\ threads[t].todo # << >>
    /\ LET d == Head(threads[t].todo)
       IN threads' = [threads EXCEPT
              ![t].user = _after_can_view_directory(@, d),
              ![t].todo = Tail(@),
              ![t].subdirectories =
                  IF can_view_directory(threads[t].user, d)
                  THEN @ \cup {d} ELSE @]
    /\ ThreadStoreUnchanged

\* The page filter and the response.
root_view_render(t) ==
    /\ threads[t].kind = "root_view" /\ threads[t].pc = "filter"
    /\ threads[t].todo = << >>
    /\ threads' = [threads EXCEPT
           ![t].pc = "done",
           ![t].pages = root_view_pages(threads[t].user)]
    /\ ThreadStoreUnchanged

\* The system owner u1 has created the private directories 1 and 2 under the
\* root and has granted View on both to the group.
InitRootView ==
    /\ directories =
           (Root :> DirRow(NoDir, NoUser, "public", "restricted"))
               @@ (1 :> DirRow(Root, "u1", "private", "restricted"))
               @@ (2 :> DirRow(Root, "u1", "private", "restricted"))
    /\ dir_revisions =
           (Root :> << >>)
               @@ (1 :> <<[visibility |-> "private",
                           editability |-> "restricted"]>>)
               @@ (2 :> <<[visibility |-> "private",
                           editability |-> "restricted"]>>)
    /\ dir_permissions = {DirPerm(1, NoUser, "g1", "view"),
                          DirPerm(2, NoUser, "g1", "view")}
    /\ pages = << >>
    /\ page_revisions = << >>
    /\ page_permissions = {}
    /\ user_groups = [u \in Users |-> {}]
    /\ system_config = [owner |-> "u1"]
    /\ ops = 0
    /\ validation = NoValidation
    /\ propagation = NoPropagation
    /\ threads = [t \in ThreadIds |-> NoThread]
    /\ profiles = NoProfiles
    /\ request = NoRequest

NextRootView ==
    \/ \E t \in ThreadIds, u \in Users : root_view_begin(t, u)
    \/ \E t \in ThreadIds : root_view_filter(t)
    \/ \E t \in ThreadIds : root_view_render(t)
    \/ \E u, member \in Users, g \in Groups : group_add_member(u, member, g)
    \/ \E u, member \in Users, g \in Groups : group_remove_member(u, member, g)

SpecRootView == InitRootView /\ [][NextRootView]_vars

\* ------------------------------------------ directory_move, query by query
\* directory_move validates the form against the tree it reads and then
\* saves the moved row, with no transaction and no lock around the two.

\* Following parent from d comes to None within `fuel` links.
RECURSIVE _parent_chain_ends(_, _)
_parent_chain_ends(d, fuel) ==
    IF d = NoDir THEN TRUE
    ELSE IF fuel = 0 THEN FALSE
    ELSE _parent_chain_ends(directories[d].parent, fuel - 1)

\* directory_move up to form.is_valid().  On a directory whose parent chain
\* comes back to it the request gives no response: the loop of
\* can_edit_directory does not end, or _collect_descendant_ids exceeds the
\* recursion limit.
directory_move_begin(t, u, d, new_parent) ==
    /\ threads[t] = NoThread
    /\ d \in Dirs \ {Root}
    /\ new_parent \in Dirs
    /\ LET thread(pc, result) ==
               [kind |-> "directory_move", pc |-> pc, user |-> u,
                directory |-> d, new_parent |-> new_parent,
                row |-> directories[d], result |-> result]
       IN threads' = [threads EXCEPT ![t] =
              IF ~_parent_chain_ends(d, Cardinality(Dirs))
              THEN thread("done", "no_response")
              ELSE IF ~can_edit_directory(RequestUser(u), d)
              THEN thread("done", "denied")
              ELSE IF new_parent \notin
                          DirectoryMoveForm_queryset(RequestUser(u), d)
              THEN thread("done", "invalid")
              ELSE thread("save", "none")]
    /\ ThreadStoreUnchanged

\* _move_directory: directory.save() writes the row the request holds.
directory_move_save(t) ==
    /\ threads[t].kind = "directory_move" /\ threads[t].pc = "save"
    /\ threads[t].directory \in Dirs
    /\ directories' = Put(directories, threads[t].directory,
           [threads[t].row EXCEPT !.parent = threads[t].new_parent])
    /\ threads' = [threads EXCEPT ![t].pc = "done", ![t].result = "ok"]
    /\ UNCHANGED <<dir_revisions, dir_permissions, pages, page_revisions,
                   page_permissions, user_groups, system_config, ops,
                   validation, request, propagation, profiles>>

\* ------------------------------------------- the decisions, link by link
\* The four decision functions with their while loops unrolled: every
\* `x = x.parent` is a query of its own, served between the saves of other
\* requests.
DecisionFunctions ==
    {"can_view_directory", "can_view_page", "can_edit_page",
     "can_edit_directory"}

\* The call has returned b / has entered the named loop at directory `at`.
_returns(b) ==
    [pc |-> "done", result |-> b, walk |-> "none", at |-> NoDir, gate |-> FALSE]
_loops(walk, at) ==
    [pc |-> "walk", result |-> FALSE, walk |-> walk, at |-> at, gate |-> FALSE]

\* can_view_directory up to its loop.
_can_view_directory_call(user, d) ==
    IF d = Root THEN _returns(TRUE)
    ELSE IF directories[d].visibility = "public" THEN _returns(TRUE)
    ELSE IF ~user.is_authenticated THEN _returns(FALSE)
    ELSE IF directories[d].visibility = "internal" THEN _returns(TRUE)
    ELSE IF is_system_owner(user) THEN _returns(TRUE)
    ELSE IF directories[d].owner = user.id THEN _returns(TRUE)
    ELSE IF _dir_permission_exists(user, d) THEN _returns(TRUE)
    ELSE _loops("_view_directory_walk", directories[d].parent)

\* can_view_page from the directory gate's return on, up to its loop.
_can_view_page_gated(user, p) ==
    IF pages[p].visibility = "internal" THEN _returns(TRUE)
    ELSE IF is_system_owner(user) THEN _returns(TRUE)
    ELSE IF pages[p].owner = user.id THEN _returns(TRUE)
    ELSE IF _page_permission_exists(user, p) THEN _returns(TRUE)
    ELSE _loops("_view_page_walk", pages[p].directory)

\* Each function up to its first loop; the directory gate of can_view_page
\* is a call of can_view_directory whose loop is walked first.
_decision_call(fn, user, target) ==
    CASE fn = "can_view_directory" -> _can_view_directory_call(user, target)
      [] fn = "can_view_page" ->
            IF pages[target].visibility = "public" THEN _returns(TRUE)
            ELSE IF ~user.is_authenticated THEN _returns(FALSE)
            ELSE IF pages[target].directory = NoDir
            THEN _can_view_page_gated(user, target)
            ELSE LET gate == _can_view_directory_call(user,
                                 pages[target].directory)
                 IN IF gate.pc = "walk" THEN [gate EXCEPT !.gate = TRUE]
                    ELSE IF gate.result
                    THEN _can_view_page_gated(user, target)
                    ELSE _returns(FALSE)
      [] fn = "can_edit_page" ->
            IF ~user.is_authenticated THEN _returns(FALSE)
            ELSE IF pages[target].editability = "internal" THEN _returns(TRUE)
            ELSE IF is_system_owner(user) THEN _returns(TRUE)
            ELSE IF pages[target].owner = user.id THEN _returns(TRUE)
            ELSE IF _page_edit_permission_exists(user, target)
            THEN _returns(TRUE)
            ELSE _loops("_edit_walk", pages[target].directory)
      [] fn = "can_edit_directory" ->
            IF ~user.is_authenticated THEN _returns(FALSE)
            ELSE IF directories[target].editability = "internal"
            THEN _returns(TRUE)
            ELSE IF is_system_owner(user) THEN _returns(TRUE)
            ELSE IF directories[target].owner = user.id THEN _returns(TRUE)
            ELSE _loops("_edit_walk", target)

\* The test one turn of a loop makes on the directory it is at.
_walk_level(walk, user, at) ==
    CASE walk = "_view_directory_walk" ->
             \/ _dir_permission_exists(user, at)
             \/ directories[at].owner = user.id
      [] walk = "_view_page_walk" -> _dir_permission_exists(user, at)
      [] walk = "_edit_walk" -> _dir_edit_permission_exists(user, at)

\* A caller asks for a decision on a stored directory or page.
decision_begin(t, fn, u, target) ==
    /\ threads[t] = NoThread
    /\ target \in (IF fn \in {"can_view_page", "can_edit_page"}
                   THEN PageSet ELSE Dirs)
    /\ LET user == IF u = NoUser THEN AnonymousUser ELSE RequestUser(u)
           call == _decision_call(fn, user, target)
       IN threads' = [threads EXCEPT ![t] =
              [kind |-> fn, user |-> user, target |-> target, steps |-> 0,
               pc |-> call.pc, result |-> call.result, walk |-> call.walk,
               at |-> call.at, gate |-> call.gate]]
    /\ ThreadStoreUnchanged

\* One turn of the loop the call is in.
decision_step(t) ==
    /\ threads[t].kind \in DecisionFunctions
    /\ threads[t].pc = "walk"
    /\ threads[t].steps < MaxWalk
    /\ LET th == threads[t]
           found == IF th.at = NoDir THEN FALSE ELSE TRUE
           call == IF ~th.gate THEN _returns(found)
                   ELSE IF found THEN _can_view_page_gated(th.user, th.target)
                   ELSE _returns(FALSE)
       IN threads' = [threads EXCEPT ![t] =
              IF th.at # NoDir /\ ~_walk_level(th.walk, th.user, th.at)
              THEN [th EXCEPT !.at = directories[th.at].parent,
                              !.steps = @ + 1]
              ELSE [th EXCEPT !.pc = call.pc, !.result = call.result,
                              !.walk = call.walk, !.at = call.at,
                              !.gate = call.gate]]
    /\ ThreadStoreUnchanged

\* The system owner u1 has created the directories 1 (internal, restricted)
\* and 2 (internal, editable by every signed-in user) under the root, and a
\* private page in directory 1.
InitMoves ==
    /\ directories =
           (Root :> DirRow(NoDir, NoUser, "public", "restricted"))
               @@ (1 :> DirRow(Root, "u1", "internal", "restricted"))
               @@ (2 :> DirRow(Root, "u1", "internal", "internal"))
    /\ dir_revisions =
           (Root :> << >>)
               @@ (1 :> <<[visibility |-> "internal",
                           editability |-> "restricted"]>>)
               @@ (2 :> <<[visibility |-> "internal",
                           editability |-> "internal"]>>)
    /\ dir_permissions = {}
    /\ pages = (1 :> PageRow(1, "u1", "private", "restricted"))
    /\ page_revisions = (1 :> 1)
    /\ page_permissions = {}
    /\ user_groups = [u \in Users |-> {}]
    /\ system_config = [owner |-> "u1"]
    /\ ops = 0
    /\ validation = NoValidation
    /\ propagation = NoPropagation
    /\ threads = [t \in ThreadIds |-> NoThread]
    /\ profiles = NoProfiles
    /\ request = NoRequest

NextMoves ==
    \/ \E t \in ThreadIds, u \in Users, d \in DirIds, new_parent \in DirIds :
           directory_move_begin(t, u, d, new_parent)
    \/ \E t \in ThreadIds : directory_move_save(t)
    \/ \E t \in ThreadIds, fn \in DecisionFunctions, u \in Users \cup {NoUser},
          target \in DirIds \cup PageIds :
           decision_begin(t, fn, u, target)
    \/ \E t \in ThreadIds : decision_step(t)

SpecMoves == InitMoves /\ [][NextMoves]_vars

\* ---------------------------------------- directory_delete, query by query
\* directory_delete reads has_children and has_pages and deletes later, with
\* no transaction and no lock around the two.

\* directory_delete up to the emptiness test of the POST branch.
directory_delete_begin(t, u, d) ==
    /\ threads[t] = NoThread
    /\ d \in Dirs \ {Root}
    /\ LET thread(pc, result) ==
               [kind |-> "directory_delete", pc |-> pc, user |-> u,
                directory |-> d, result |-> result]
       IN threads' = [threads EXCEPT ![t] =
              IF ~can_edit_directory(RequestUser(u), d)
              THEN thread("done", "denied")
              ELSE IF Children(d) # {} \/ PagesIn(d) # {}
              THEN thread("done", "invalid")
              ELSE thread("delete", "none")]
    /\ ThreadStoreUnchanged

\* directory.delete(): the row goes, and with it every row that reaches it
\* through an on_delete=CASCADE key -- child directories, pages, revisions
\* and permissions, as stored when delete() runs.
directory_delete_delete(t) ==
    /\ threads[t].kind = "directory_delete" /\ threads[t].pc = "delete"
    /\ LET d == threads[t].directory
           gone_dirs == IF d \in Dirs THEN {d} \cup _collect_descendant_ids(d)
                        ELSE {}
           gone_pages == {p \in PageSet : pages[p].directory \in gone_dirs}
       IN /\ directories' = [x \in Dirs \ gone_dirs |-> directories[x]]
          /\ dir_revisions' = [x \in Dirs \ gone_dirs |-> dir_revisions[x]]
          /\ dir_permissions' =
                 {perm \in dir_permissions : perm.directory \notin gone_dirs}
          /\ pages' = [p \in PageSet \ gone_pages |-> pages[p]]
          /\ page_revisions' = [p \in PageSet \ gone_pages |-> page_revisions[p]]
          /\ page_permissions' =
                 {perm \in page_permissions : perm.page \notin gone_pages}
    /\ threads' = [threads EXCEPT ![t].pc = "done", ![t].result = "ok"]
    /\ UNCHANGED <<user_groups, system_config, ops, validation, request,
                   propagation, profiles>>

\* Delete requests served side by side with requests that create a
\* directory, or a page with the directory field left blank and nobody
\* mentioned.
NextDelete ==
    \/ \E t \in ThreadIds, u \in Users, d \in DirIds :
           directory_delete_begin(t, u, d)
    \/ \E t \in ThreadIds : directory_delete_delete(t)
    \/ \E u \in Users, parent \in DirIds, v \in Visibility, e \in Editability :
           directory_create(u, parent, v, e)
    \/ \E u \in Users, path \in DirIds, v \in Visibility, e \in Editability :
           page_create(u, path, [blank |-> TRUE, base |-> NoDir, new |-> 0],
                       v, e, [user |-> NoUser, level |-> "none"])

SpecDelete == InitShared /\ [][NextDelete]_vars

\* ------------------------------ propagation next to page moves
\* u2 has created the public directory 1 and the private directory 2 under
\* the root, and a private page in directory 1.
InitMoveApply ==
    /\ directories =
           (Root :> DirRow(NoDir, NoUser, "public", "restricted"))
               @@ (1 :> DirRow(Root, "u2", "public", "restricted"))
               @@ (2 :> DirRow(Root, "u2", "private", "restricted"))
    /\ dir_revisions =
           (Root :> << >>)
               @@ (1 :> <<[visibility |-> "public",
                           editability |-> "restricted"]>>)
               @@ (2 :> <<[visibility |-> "private",
                           editability |-> "restricted"]>>)
    /\ dir_permissions = {}
    /\ pages = (1 :> PageRow(1, "u2", "private", "restricted"))
    /\ page_revisions = (1 :> 1)
    /\ page_permissions = {}
    /\ user_groups = [u \in Users |-> {}]
    /\ system_config = [owner |-> "u1"]
    /\ ops = 0
    /\ validation = NoValidation
    /\ request = [user |-> "u2", status |-> "ok"]
    /\ propagation = NoPropagation
    /\ threads = [t \in ThreadIds |-> NoThread]
    /\ profiles = NoProfiles

\* The writes of a propagation run, and page_move requests served between
\* them.
NextMoveApply ==
    \/ \E u \in Users, d \in DirIds, scope \in {"direct", "recursive"} :
           apply_begin(u, d, scope)
    \/ apply_write
    \/ apply_finish
    \/ apply_fail
    \/ \E u \in Users, p \in PageIds, t \in DirIds \cup {NoDir} :
           page_move(u, p, t)

SpecMoveApply == InitMoveApply /\ [][NextMoveApply]_vars

\* ================================================================ claims
\* Every user object a caller can hold: without memoized group ids, or with
\* any memoized set.
UserObjects ==
    {RequestUser(u) : u \in Users}
        \cup {UserObject(u, TRUE, c) : u \in Users, c \in SUBSET Groups}
AllPrincipals == UserObjects \cup {AnonymousUser}

\* Grant matching stated on the store: the row names the user, or a group
\* the user is a member of.
GrantMatches(u, perm) == perm.user = u \/ perm.group \in user_groups[u]

\* d and every directory above it, found from the child relation.
AncestorsOrSelf(d) ==
    {d} \cup {a \in Dirs : d \in _collect_descendant_ids(a)}

\* C1: system owner supremacy -- the user recorded in SystemConfig can view
\* and edit every directory and every page, whatever their visibility,
\* editability, owners, grants and place in the tree.
C1_SystemOwnerSupremacy ==
    \A user \in UserObjects :
        user.id = system_config.owner =>
            /\ \A d \in Dirs :
                   can_view_directory(user, d) /\ can_edit_directory(user, d)
            /\ \A p \in PageSet :
                   can_view_page(user, p) /\ can_edit_page(user, p)

\* A private, restricted page of another user in a private, restricted
\* directory of another user, with no grant naming the system owner.
C1_Witness ==
    \E p \in PageSet :
        /\ pages[p].visibility = "private"
        /\ pages[p].editability = "restricted"
        /\ pages[p].owner # system_config.owner
        /\ pages[p].directory # NoDir
        /\ directories[pages[p].directory].visibility = "private"
        /\ directories[pages[p].directory].editability = "restricted"
        /\ directories[pages[p].directory].owner # system_config.owner
        /\ \A perm \in dir_permissions \cup page_permissions :
               perm.user # system_config.owner
        /\ user_groups[system_config.owner] = {}

\* C2: owner supremacy -- the owner of a directory or page can edit it,
\* whatever its editability, visibility, grants and place in the tree.
C2_OwnerSupremacy ==
    \A user \in UserObjects :
        /\ \A d \in Dirs :
               directories[d].owner = user.id => can_edit_directory(user, d)
        /\ \A p \in PageSet :
               pages[p].owner = user.id => can_edit_page(user, p)

\* A private, restricted page whose owner is not the system owner and holds
\* no grant, inside a restricted directory of somebody else.
C2_Witness ==
    \E p \in PageSet :
        /\ pages[p].owner \in Users \ {system_config.owner}
        /\ pages[p].visibility = "private"
        /\ pages[p].editability = "restricted"
        /\ pages[p].directory # NoDir
        /\ directories[pages[p].directory].owner # pages[p].owner
        /\ directories[pages[p].directory].editability = "restricted"
        /\ \A perm \in dir_permissions \cup page_permissions :
               ~GrantMatches(pages[p].owner, perm)

\* C3: public item override -- a Public page is viewable by every principal,
\* anonymous included, whatever the visibility of its directory and of the
\* directories above it.
C3_PublicItemOverride ==
    \A p \in PageSet :
        pages[p].visibility = "public" =>
            \A user \in AllPrincipals : can_view_page(user, p)

\* A Public page in a Private directory that some authenticated user cannot
\* view, seen by that user and by the anonymous principal.
C3_Witness ==
    \E p \in PageSet, u \in Users :
        /\ pages[p].visibility = "public"
        /\ pages[p].directory # NoDir
        /\ directories[pages[p].directory].visibility = "private"
        /\ ~can_view_directory(RequestUser(u), pages[p].directory)
        /\ can_view_page(RequestUser(u), p)
        /\ can_view_page(AnonymousUser, p)

\* C4: directory gate -- a non-Public page in a Private directory is hidden
\* from a principal who is neither the system owner nor the page's owner
\* and cannot view that directory, even when the page is Internal.
C4_DirectoryGate ==
    \A p \in PageSet :
        (/\ pages[p].visibility # "public"
         /\ pages[p].directory # NoDir
         /\ directories[pages[p].directory].visibility = "private") =>
            \A user \in AllPrincipals :
                (/\ user.id # system_config.owner
                 /\ user.id # pages[p].owner
                 /\ ~can_view_directory(user, pages[p].directory)) =>
                    ~can_view_page(user, p)

\* An Internal page in a Private directory that some authenticated user,
\* who is not its owner, cannot view.
C4_Witness ==
    \E p \in PageSet, u \in Users :
        /\ pages[p].visibility = "internal"
        /\ pages[p].directory # NoDir
        /\ directories[pages[p].directory].visibility = "private"
        /\ u # system_config.owner
        /\ u # pages[p].owner
        /\ ~can_view_directory(RequestUser(u), pages[p].directory)
        /\ ~can_view_page(RequestUser(u), p)

\* C5: the anonymous principal edits nothing, and views exactly the Public
\* pages, the Public directories and the root directory.
C5_Anonymous ==
    /\ \A d \in Dirs :
           /\ ~can_edit_directory(AnonymousUser, d)
           /\ can_view_directory(AnonymousUser, d) <=>
                  (d = Root \/ directories[d].visibility = "public")
    /\ \A p \in PageSet :
           /\ ~can_edit_page(AnonymousUser, p)
           /\ can_view_page(AnonymousUser, p) <=>
                  (pages[p].visibility = "public")

\* A non-Public root, a Public directory open to editing by any authenticated
\* user, and an Internal page with Internal editability.
C5_Witness ==
    /\ directories[Root].visibility # "public"
    /\ \E d \in Dirs \ {Root} :
           /\ directories[d].visibility = "public"
           /\ directories[d].editability = "internal"
    /\ \E p \in PageSet :
           /\ pages[p].visibility = "internal"
           /\ pages[p].editability = "internal"

\* C6: for an authenticated user, can-edit holds exactly when the target's
\* editability is Internal, or the user is the system owner or the target's
\* owner, or an Edit/Owner grant matching the user (directly or through a
\* group) sits on the target or on a directory above it; View grants never
\* count.
EditGrantOnDirs(u, dirs) ==
    \E perm \in dir_permissions :
        /\ perm.directory \in dirs
        /\ perm.permission_type \in {"edit", "owner"}
        /\ GrantMatches(u, perm)

C6_CanEditExact ==
    \A u \in Users :
        /\ \A d \in Dirs :
               can_edit_directory(RequestUser(u), d) <=>
                   \/ directories[d].editability = "internal"
                   \/ u = system_config.owner
                   \/ u = directories[d].owner
                   \/ EditGrantOnDirs(u, AncestorsOrSelf(d))
        /\ \A p \in PageSet :
               can_edit_page(RequestUser(u), p) <=>
                   \/ pages[p].editability = "internal"
                   \/ u = system_config.owner
                   \/ u = pages[p].owner
                   \/ \E perm \in page_permissions :
                          /\ perm.page = p
                          /\ perm.permission_type \in {"edit", "owner"}
                          /\ GrantMatches(u, perm)
                   \/ /\ pages[p].directory # NoDir
                      /\ EditGrantOnDirs(u, AncestorsOrSelf(pages[p].directory))

\* A user holding View grants on a page and on its directory, and still not
\* allowed to edit the page.
C6_Witness ==
    \E p \in PageSet, u \in Users :
        /\ pages[p].directory # NoDir
        /\ \E perm \in page_permissions :
               perm.page = p /\ perm.user = u /\ perm.permission_type = "view"
        /\ \E perm \in dir_permissions :
               /\ perm.directory = pages[p].directory
               /\ perm.user = u /\ perm.permission_type = "view"
        /\ ~can_edit_page(RequestUser(u), p)

\* C7: inheritance -- an Edit grant on directory c matching a user (directly
\* or through a group) lets that user edit every directory nested under c
\* and every page in c or in a directory nested under c.
C7_InheritanceMonotonicity ==
    \A perm \in dir_permissions, u \in Users :
        (perm.permission_type = "edit" /\ GrantMatches(u, perm)) =>
            LET c == perm.directory
                below == _collect_descendant_ids(c)
            IN /\ \A d \in below : can_edit_directory(RequestUser(u), d)
               /\ \A p \in PageSet :
                      pages[p].directory \in below \cup {c} =>
                          can_edit_page(RequestUser(u), p)

\* An Edit grant on a non-root directory c for a user who is neither system
\* owner nor owner of anything below, and a restricted page in a restricted
\* directory nested under c.
C7_Witness ==
    \E perm \in dir_permissions, u \in Users, p \in PageSet :
        /\ perm.permission_type = "edit" /\ GrantMatches(u, perm)
        /\ perm.directory # Root
        /\ u # system_config.owner
        /\ pages[p].directory \in _collect_descendant_ids(perm.directory)
        /\ pages[p].editability = "restricted"
        /\ pages[p].owner # u
        /\ directories[pages[p].directory].editability = "restricted"
        /\ directories[pages[p].directory].owner # u
        /\ can_edit_page(RequestUser(u), p)

\* The pairs (item visibility, container visibility) in which the item is
\* strictly more open, under Private < Internal < Public.
MoreOpenPairs ==
    {<<"internal", "private">>, <<"public", "private">>,
     <<"public", "internal">>}

\* C8 as stated: a View grant on a page to a group makes the page viewable
\* by every member of the group, in whatever directory the page is.
C8_GrantAnyContainer ==
    \A perm \in page_permissions, u \in Users :
        (perm.permission_type = "view" /\ perm.group \in user_groups[u]) =>
            can_view_page(RequestUser(u), perm.page)

\* C8, grant part as the evaluator has it: a View grant on a page to a group
\* makes the page viewable by every member who can view the page's
\* directory, or when the page has no directory.
C8_GrantToGroup ==
    \A perm \in page_permissions, u \in Users :
        (/\ perm.permission_type = "view"
         /\ perm.group \in user_groups[u]
         /\ \/ pages[perm.page].directory = NoDir
            \/ can_view_directory(RequestUser(u), pages[perm.page].directory))
            => can_view_page(RequestUser(u), perm.page)

\* No basis for viewing page p in the given store other than group g: the
\* page is Private, u is neither system owner nor owner, and no grant on the
\* page or on a directory above it names u or one of u's other groups.
NoOtherBasis(u, g, p, pgs, pperms, dperms, ugs, config) ==
    /\ pgs[p].visibility = "private"
    /\ u # config.owner
    /\ u # pgs[p].owner
    /\ \A perm \in pperms \cup dperms :
           perm.user # u /\ perm.group \notin (ugs[u] \ {g})

\* C8, revocation part: once a user has left a group, and the group ids are
\* resolved afresh, a page the user has no other basis to view is not
\* viewable by that user.
C8_MembershipRevoked ==
    \A u \in Users, g \in Groups, p \in PageSet :
        (/\ g \in user_groups[u]
         /\ g \notin user_groups'[u]
         /\ p \in DOMAIN pages'
         /\ NoOtherBasis(u, g, p, pages', page_permissions',
                         dir_permissions', user_groups', system_config'))
            => ~(can_view_page(RequestUser(u), p))'

\* C8: group expansion -- a group's View grant on a page reaches every
\* member who passes the page's directory gate, and stops reaching a user
\* whose membership has been removed.
C8_GroupExpansion == [](C8_GrantToGroup) /\ [][C8_MembershipRevoked]_vars

\* u2 has left g1; a Private page in a directory carries a View grant for
\* g1 and nothing else for u2: a user object still holding the old group
\* ids views it, a fresh one does not.
C8_Witness ==
    \E p \in PageSet :
        /\ user_groups["u2"] = {}
        /\ pages[p].visibility = "private"
        /\ pages[p].directory # NoDir
        /\ pages[p].owner # "u2"
        /\ \E perm \in page_permissions :
               /\ perm.page = p /\ perm.group = "g1"
               /\ perm.permission_type = "view"
        /\ \A perm \in page_permissions \cup dir_permissions :
               perm.user # "u2"
        /\ can_view_page(UserObject("u2", TRUE, {"g1"}), p)
        /\ ~can_view_page(RequestUser("u2"), p)

\* C9: over the whole input domain, the openness check reports a violation
\* exactly when the page visibility is strictly more open than the directory
\* visibility, and the editability check exactly when editability is
\* Internal and visibility is Private.
C9_ValidatorPredicates ==
    /\ (/\ validation.more_open # "unchecked"
        /\ validation.page_visibility \in Visibility
        /\ validation.directory_visibility \in Visibility) =>
           (validation.more_open = "violation" <=>
                <<validation.page_visibility,
                  validation.directory_visibility>> \in MoreOpenPairs)
    /\ validation.editability_more_open # "unchecked" =>
           (validation.editability_more_open = "violation" <=>
                (/\ validation.editability = "internal"
                 /\ validation.page_visibility = "private"))

\* Both checks have run on an Internal page, Internal editability and a
\* Private directory: openness violated, editability accepted.
C9_Witness ==
    /\ validation.page_visibility = "internal"
    /\ validation.directory_visibility = "private"
    /\ validation.editability = "internal"
    /\ validation.more_open = "violation"
    /\ validation.editability_more_open = "accepted"

\* Page p is strictly more open than the directory it is in.
MoreOpen(pgs, dirs, p) ==
    /\ pgs[p].directory # NoDir
    /\ <<pgs[p].visibility, dirs[pgs[p].directory].visibility>>
           \in MoreOpenPairs

ContainerRewritten(p) ==
    LET d == pages[p].directory
    IN /\ d # NoDir
       /\ d \in DOMAIN directories'
       /\ directories'[d].visibility # directories[d].visibility
       /\ Len(dir_revisions'[d]) > Len(dir_revisions[d])

C10_Step ==
    \A p \in DOMAIN pages' :
        MoreOpen(pages', directories', p) =>
            /\ p \in PageSet
            /\ \/ MoreOpen(pages, directories, p)
               \/ pages'[p] = pages[p] /\ ContainerRewritten(p)

C11_NoInternalEditabilityOnPrivate ==
    /\ \A d \in Dirs :
           ~(/\ directories[d].editability = "internal"
             /\ directories[d].visibility = "private")
    /\ \A p \in PageSet :
           ~(/\ pages[p].editability = "internal"
             /\ pages[p].visibility = "private")

\* C12: a rejected write leaves all state unchanged -- when a request is
\* refused by a permission check or by the consistency validator, the
\* directories, pages, grants and revisions are the same before and after.
C12_RejectedWriteLeavesState ==
    [][request'.status \in {"denied", "invalid"} => UNCHANGED Store]_vars

\* The grant rows on a directory or page, without their target.
GrantsOnDir(rows, d) ==
    {<<r.user, r.group, r.permission_type>> : r \in {x \in rows : x.directory = d}}
GrantsOnPage(rows, p) ==
    {<<r.user, r.group, r.permission_type>> : r \in {x \in rows : x.page = p}}

C13_Step ==
    \A u \in Users, c \in Dirs :
        (/\ _directory_apply_permissions_inner(u, c, "recursive")
         /\ request'.status = "ok") =>
            LET below == _collect_descendant_ids(c)
            IN /\ \A d \in below :
                      /\ directories'[d].visibility = directories[c].visibility
                      /\ directories'[d].editability = directories[c].editability
                      /\ GrantsOnDir(dir_permissions, c)
                             \subseteq GrantsOnDir(dir_permissions', d)
               /\ \A p \in PageSet :
                      pages[p].directory \in below \cup {c} =>
                          /\ pages'[p].visibility = directories[c].visibility
                          /\ pages'[p].editability = directories[c].editability
                          /\ GrantsOnDir(dir_permissions, c)
                                 \subseteq GrantsOnPage(page_permissions', p)

AppliedAgain(c, scope) ==
    /\ _applied_pages(c, scope) = pages
    /\ _applied_page_permissions(c, scope) = page_permissions
    /\ _applied_directories(c, scope) = directories
    /\ _applied_dir_permissions(c, scope) = dir_permissions

C14_Step ==
    \A u \in Users, c \in Dirs, scope \in {"direct", "recursive"} :
        (/\ _directory_apply_permissions_inner(u, c, scope)
         /\ request'.status = "ok") =>
            /\ dir_permissions \subseteq dir_permissions'
            /\ page_permissions \subseteq page_permissions'
            /\ \A r \in dir_permissions' \cup page_permissions' : r.copy = 1
            /\ AppliedAgain(c, scope)'

\* C14: propagation is additive and idempotent -- a propagation run removes
\* no grant from any directory or page, a second identical run right after
\* it changes nothing, and no run leaves two rows for one
\* (target, principal, type).
C14_AdditiveIdempotent == [][C14_Step]_vars

\* After a served request: a directory created along a page path (no
\* revision) has been made private by a run on the directory above, and its
\* page holds a grant that directory does not have next to the grant it has.
C14_Witness ==
    \E p \in PageSet :
        LET d == pages[p].directory
        IN /\ request.status = "ok"
           /\ d \in Dirs \ {Root}
           /\ dir_revisions[d] = << >>
           /\ directories[d].visibility = "private"
           /\ GrantsOnPage(page_permissions, p)
                  \ GrantsOnDir(dir_permissions, directories[d].parent) # {}
           /\ GrantsOnDir(dir_permissions, directories[d].parent) # {}
           /\ GrantsOnDir(dir_permissions, directories[d].parent)
                  \subseteq GrantsOnPage(page_permissions, p)

\* A run that reaches its end has written what the handler taken as one
\* step writes.
CompletedRunMatchesHandler ==
    propagation.status = "done" => PropagationStore = propagation.after

\* C15: propagation atomicity -- when a propagation request has ended
\* without finishing, the pages, directories and grants are either all as
\* they were before the request or all as the finished request leaves them.
C15_AllOrNothing ==
    propagation.status = "failed" =>
        \/ PropagationStore = propagation.before
        \/ PropagationStore = propagation.after

\* Following parent links from d arrives at the root within `fuel` links.
RECURSIVE ReachesRoot(_, _)
ReachesRoot(d, fuel) ==
    IF d = Root THEN TRUE
    ELSE IF fuel = 0 \/ d \notin Dirs THEN FALSE
    ELSE ReachesRoot(directories[d].parent, fuel - 1)

TreeWellFormed ==
    /\ {d \in Dirs : directories[d].parent = NoDir} = {Root}
    /\ \A d \in Dirs : ReachesRoot(d, Cardinality(Dirs))

MoveIntoOwnSubtreeRejected ==
    \A u \in Users, d \in Dirs, t \in Dirs :
        (/\ directory_move(u, d, t)
         /\ t \in {d} \cup _collect_descendant_ids(d)) =>
            /\ request'.status \in {"denied", "invalid"}
            /\ directories' = directories

\* C16: tree well-formedness -- in every reachable state the root is the
\* only directory without a parent and every directory's parent chain ends
\* at the root (no cycle); a request to move a directory under itself or
\* under one of its descendants is rejected and leaves the tree unchanged.
C16_TreeWellFormed == []TreeWellFormed /\ [][MoveIntoOwnSubtreeRejected]_vars

\* Directory 1 has been moved under directory 2, which hangs under the root.
C16_Witness ==
    /\ request.status = "ok"
    /\ 2 \in Dirs
    /\ directories[1].parent = 2
    /\ directories[2].parent = Root
    /\ dir_revisions[1] # << >>

SameGrant(r1, r2) ==
    /\ r1.user = r2.user
    /\ r1.group = r2.group
    /\ r1.permission_type = r2.permission_type

\* C17: grant uniqueness -- no directory and no page ever has two grant
\* rows for the same principal and the same permission type, whichever of
\* the permission screens, mentions or propagation wrote them.
C17_GrantUniqueness ==
    /\ \A r1, r2 \in dir_permissions :
           (r1.directory = r2.directory /\ SameGrant(r1, r2)) => r1 = r2
    /\ \A r1, r2 \in page_permissions :
           (r1.page = r2.page /\ SameGrant(r1, r2)) => r1 = r2

\* The root's grant has been propagated to a directory created along a
\* page path and to the page in it, and each holds it once.
C17_Witness ==
    \E d \in Dirs \ {Root}, p \in PageSet :
        /\ request.status = "ok"
        /\ pages[p].directory = d
        /\ dir_revisions[d] = << >>
        /\ GrantsOnDir(dir_permissions, Root) # {}
        /\ GrantsOnDir(dir_permissions, Root) = GrantsOnDir(dir_permissions, d)
        /\ GrantsOnDir(dir_permissions, Root) = GrantsOnPage(page_permissions, p)
        /\ Cardinality({r \in page_permissions : r.page = p}) = 1
        /\ Cardinality({r \in dir_permissions : r.directory = d}) = 1

\* The requester of the step can edit directory c once the step is done.
\* `roots` are the containers left out of the requirement.
CreatedUnderEditable(roots) ==
    \A u \in Users :
        request'.user = u =>
            /\ \A p \in PageIds, c \in DirIds \ roots :
                   (/\ p \in PageSet' \ PageSet
                    /\ pages'[p].directory = c) =>
                       (can_edit_directory(RequestUser(u), c))'
            /\ \A d \in DirIds, c \in DirIds \ roots :
                   (/\ d \in Dirs' \ Dirs
                    /\ directories'[d].parent = c) =>
                       (can_edit_directory(RequestUser(u), c))'

\* C18: creation requires edit rights on the parent -- whenever a request
\* creates a page or a directory, its requester can edit the directory the
\* new node is in when the request is done; this covers a directory named
\* in the submitted form and directories created along a path.
C18_CreationRequiresEdit == [][CreatedUnderEditable({})]_vars

\* The same requirement with creation directly under the root left out.
C18_CreationBelowRootRequiresEdit == [][CreatedUnderEditable({Root})]_vars

\* The directories and pages whose grant rows the step changes.
DirsWithChangedGrants ==
    {r.directory : r \in (dir_permissions' \ dir_permissions)
                             \cup (dir_permissions \ dir_permissions')}
PagesWithChangedGrants ==
    {r.page : r \in (page_permissions' \ page_permissions)
                        \cup (page_permissions \ page_permissions')}

\* u can edit the target: read before the step for a target that existed,
\* after it for a page the step has created.
CanEditTargetDir(u, t) == can_edit_directory(RequestUser(u), t)
CanEditTargetPage(u, t) ==
    IF t \in PageSet THEN can_edit_page(RequestUser(u), t)
    ELSE (can_edit_page(RequestUser(u), t))'

\* The step is a propagation run that u started on a directory u can edit
\* and that has directory t, or the directory of page t, in its subtree.
PropagatedFromAbove(u, dirs) ==
    \E c \in Dirs, scope \in {"direct", "recursive"} :
        /\ _directory_apply_permissions_inner(u, c, scope)
        /\ can_edit_directory(RequestUser(u), c)
        /\ dirs \subseteq {c} \cup _collect_descendant_ids(c)

\* The claim as stated: the requester can edit every target.
C19_GrantsByTargetEditors ==
    [][\A u \in Users :
          request'.user = u =>
              /\ \A t \in DirsWithChangedGrants : CanEditTargetDir(u, t)
              /\ \A t \in PagesWithChangedGrants : CanEditTargetPage(u, t)]_vars

\* C19: grant management requires edit rights -- every grant created on or
\* removed from a directory or page t results from a request whose requester
\* can edit t, or from a propagation run the requester started on a
\* directory above t that the requester can edit.
C19_GrantsByEditorsOrPropagation ==
    [][\A u \in Users :
          request'.user = u =>
              /\ \A t \in DirsWithChangedGrants :
                     \/ CanEditTargetDir(u, t)
                     \/ PropagatedFromAbove(u, {t})
              /\ \A t \in PagesWithChangedGrants :
                     \/ CanEditTargetPage(u, t)
                     \/ /\ t \in PageSet
                        /\ PropagatedFromAbove(u, {pages[t].directory})]_vars

\* u2, owner of directory 1, has propagated its group grant to a page the
\* system owner created there, a page u2 cannot edit.
C19_Witness ==
    \E p \in PageSet :
        /\ request = [user |-> "u2", status |-> "ok"]
        /\ pages[p].directory = 1
        /\ directories[1].owner = "u2"
        /\ pages[p].owner = "u1"
        /\ ~can_edit_page(RequestUser("u2"), p)
        /\ GrantsOnDir(dir_permissions, 1) # {}
        /\ GrantsOnDir(dir_permissions, 1) \subseteq GrantsOnPage(page_permissions, p)

\* Who can send a request: each user, logged in, and a visitor.
Requesters == {RequestUser(u) : u \in Users} \cup {AnonymousUser}

DirsViewable(user, dirs) == \A d \in dirs : can_view_directory(user, d)
PagesViewable(user, page_ids) == \A p \in page_ids : can_view_page(user, p)

C20_Listings ==
    \A user \in Requesters :
        /\ DirsViewable(user, root_view_subdirectories(user))
        /\ PagesViewable(user, root_view_pages(user))
        /\ \A d \in Dirs :
               /\ DirsViewable(user, directory_detail_subdirectories(user, d))
               /\ PagesViewable(user, directory_detail_pages(user, d))
C20_Search ==
    \A user \in Requesters :
        /\ \A d \in Dirs : DirsViewable(user, directory_search_htmx(user, d))
        /\ PagesViewable(user, page_search_htmx(user))
C20_Breadcrumbs ==
    \A user \in Requesters :
        /\ \A d \in Dirs : DirsViewable(user, directory_detail_breadcrumbs(user, d))
        /\ \A p \in PageSet :
               DirsViewable(user, _render_page_detail_breadcrumbs(user, p))
C20_MoveChoosers ==
    \A user \in Requesters :
        /\ \A d \in Dirs : DirsViewable(user, directory_move_choices(user, d))
        /\ \A p \in PageSet : DirsViewable(user, page_move_choices(user, p))

\* C20: listing confidentiality -- every directory or page that a listing,
\* a search or autocomplete endpoint, a breadcrumb trail or a move-target
\* chooser returns to a requester is one the requester can view.
C20_ListingConfidentiality ==
    /\ C20_Listings
    /\ C20_Search
    /\ C20_Breadcrumbs
    /\ C20_MoveChoosers

\* C21: existence non-disclosure -- a requester who cannot view a page or a
\* directory gets, from every endpoint addressed at it (detail, history,
\* edit, move, delete, permissions, revert), the outcome the same requester
\* gets from that endpoint for an address at which nothing is stored.
C21_ExistenceNonDisclosure ==
    \A user \in Requesters, endpoint \in Endpoints :
        /\ \A p \in PageSet :
               ~can_view_page(user, p) =>
                   page_response(endpoint, user, p, TRUE)
                       = page_response(endpoint, user, p, FALSE)
        /\ \A d \in Dirs \ {Root} :
               ~can_view_directory(user, d) =>
                   directory_response(endpoint, user, d, TRUE)
                       = directory_response(endpoint, user, d, FALSE)

\* The same for the two endpoints that are gated on viewing.
C21_ViewGatedEndpoints ==
    \A user \in Requesters, endpoint \in {"detail", "history"} :
        /\ \A p \in PageSet :
               ~can_view_page(user, p) =>
                   page_response(endpoint, user, p, TRUE) = "not_found"
        /\ \A d \in Dirs \ {Root} :
               ~can_view_directory(user, d) =>
                   directory_response(endpoint, user, d, TRUE) = "not_found"

EditImpliesViewPages ==
    \A user \in Requesters, p \in PageSet :
        can_edit_page(user, p) => can_view_page(user, p)
EditImpliesViewDirectories ==
    \A user \in Requesters, d \in Dirs :
        can_edit_directory(user, d) => can_view_directory(user, d)

\* C28: edit implies view -- in every reachable state, whoever can edit a
\* page or a directory can also view it.
C28_EditImpliesView == EditImpliesViewPages /\ EditImpliesViewDirectories

\* The rows of everything outside the pages located directly in c.
OutsideDirectPages(c, dir_rows, dperm_rows, page_rows, pperm_rows, drevs) ==
    <<dir_rows, dperm_rows, drevs,
      [p \in PageSet \ PagesIn(c) |-> page_rows[p]],
      {r \in pperm_rows : r.page \notin PagesIn(c)}>>

C25_Step ==
    \A u \in Users, c \in Dirs :
        (/\ _directory_apply_permissions_inner(u, c, "direct")
         /\ request'.status = "ok") =>
            /\ OutsideDirectPages(c, directories', dir_permissions', pages',
                                  page_permissions', dir_revisions')
                 = OutsideDirectPages(c, directories, dir_permissions, pages,
                                      page_permissions, dir_revisions)
            /\ \A p \in PagesIn(c) : pages'[p].directory = c

\* C25: direct-scope propagation frame -- a run with scope "direct" on
\* directory c changes visibility, editability and grants only on the pages
\* located directly in c; c itself, every directory, every page located
\* elsewhere and all of their grants are the same before and after the run.
C25_DirectScopeFrame == [][C25_Step]_vars

\* After a served request: a page located directly in a private directory
\* with a grant carries the directory's visibility, editability and grant.
C25_Witness ==
    \E p \in PageSet :
        LET c == pages[p].directory
        IN /\ request.status = "ok"
           /\ ops = MaxOps
           /\ c \in Dirs \ {Root}
           /\ directories[c].visibility = "private"
           /\ pages[p].visibility = directories[c].visibility
           /\ pages[p].editability = directories[c].editability
           /\ GrantsOnDir(dir_permissions, c) # {}
           /\ GrantsOnDir(dir_permissions, c) \subseteq GrantsOnPage(page_permissions, p)

C22_Step ==
    /\ system_config # NoSystemConfig => system_config' = system_config
    /\ system_config' # system_config =>
           \E t \in ThreadIds :
               /\ threads[t].kind = "login" /\ threads[t].pc = "create"
               /\ threads'[t].pc = "token"
               /\ system_config' = [owner |-> threads[t].user]

\* C22: the system owner is set once -- the first login request that finds
\* no SystemConfig row makes its user the owner; once a row is stored no
\* login request, later or running side by side with the first, changes the
\* owner or stores another row.
C22_OwnerSetOnce == [][C22_Step]_vars

\* Two login requests both found no SystemConfig row: one stored it, the
\* other's INSERT failed and the owner is still the first one's user.
C22_Witness ==
    \E t1, t2 \in ThreadIds :
        /\ threads[t1].kind = "login" /\ threads[t2].kind = "login"
        /\ threads[t1].result = "sent"
        /\ threads[t2].result = "IntegrityError"
        /\ threads[t1].user # threads[t2].user
        /\ system_config = [owner |-> threads[t1].user]

\* C27: magic-link tokens are single use -- each issued token results in at
\* most one successful login, also when two verification requests present it
\* side by side.
C27_TokenSingleUse ==
    \A t1, t2 \in ThreadIds :
        (/\ threads[t1].kind = "verify" /\ threads[t2].kind = "verify"
         /\ threads[t1].result = "signed_in"
         /\ threads[t2].result = "signed_in"
         /\ threads[t1].token = threads[t2].token) => t1 = t2

C23_Step ==
    \A t \in ThreadIds :
        (/\ threads[t].kind = "root_view" /\ threads[t].pc = "filter"
         /\ threads'[t] # threads[t]
         /\ threads[t].todo # << >>) =>
            LET d == Head(threads[t].todo)
            IN (d \in threads'[t].subdirectories)
                   <=> can_view_directory(RequestUser(threads[t].user.id), d)

\* C23: membership changes invalidate the memoized group resolution -- every
\* can_view_directory decision made after a user was added to or removed
\* from a group is the decision for the stored membership, also when it is
\* made through a user object that resolved its groups before the change.
C23_MemoFollowsMembership == [][C23_Step]_vars

\* C29: concurrent directory moves preserve acyclicity -- when two move
\* requests on different directories are served side by side, each validated
\* against the tree it read, the root is still the only directory without a
\* parent and every directory's parent chain still ends at the root.
C29_ConcurrentMovesAcyclic == TreeWellFormed

\* One request alone: a move that was validated and saved with no other
\* request's save in between leaves the tree well formed.
C29_MoveAloneKeepsTree ==
    [][\A t \in ThreadIds :
          (/\ threads[t].kind = "directory_move" /\ threads[t].pc = "save"
           /\ threads'[t].pc = "done"
           /\ threads[t].row = directories[threads[t].directory]
           /\ \A o \in ThreadIds \ {t} :
                  threads[o] = NoThread \/ threads[o].pc = "save"
           /\ TreeWellFormed
           /\ threads[t].new_parent \in
                  DirectoryMoveForm_queryset(RequestUser(threads[t].user),
                                             threads[t].directory))
              => TreeWellFormed']_vars

\* C24: the decision functions are total and terminate -- on every stored
\* tree, a tree with a cycle in the parent relation included, each of the
\* four functions returns after a bounded number of ancestor steps: a call
\* walks each of its (at most two) loops over no more links than there are
\* directories.
C24_WalksBounded ==
    \A t \in ThreadIds :
        threads[t].kind \in DecisionFunctions =>
            threads[t].steps <= 2 * Cardinality(Dirs)

\* On a well-formed tree the walks are bounded by the number of directories.
C24_BoundedOnTrees ==
    \A t \in ThreadIds :
        (threads[t].kind \in DecisionFunctions /\ TreeWellFormed) =>
            threads[t].steps <= 2 * Cardinality(Dirs)

C26_Step ==
    \A t \in ThreadIds :
        (/\ threads[t].kind = "directory_delete" /\ threads[t].pc = "delete"
         /\ threads'[t].pc = "done") =>
            LET d == threads[t].directory
            IN /\ d \in Dirs => Children(d) = {} /\ PagesIn(d) = {}
               /\ Dirs \ {d} \subseteq DOMAIN directories'
               /\ PageSet \subseteq DOMAIN pages'

\* C26: a non-empty directory is never deleted -- the directory a delete
\* request removes holds no page and no child directory when it is removed,
\* and no other directory and no page goes with it, also when a page or a
\* child directory is created in it while the delete request is served.
C26_NonEmptyNeverDeleted == [][C26_Step]_vars

\* A delete request that finds a page or a child directory is refused.
C26_RefusedWhenNonEmpty ==
    [][\A t \in ThreadIds, u \in Users, d \in Dirs :
          (/\ directory_delete_begin(t, u, d)
           /\ Children(d) # {} \/ PagesIn(d) # {})
              => threads'[t].result \in {"denied", "invalid"}]_vars

\* C30: propagation next to a page move keeps the openness invariant -- when
\* a propagation run has finished and a page was moved to another directory
\* while the run was being served, the page's visibility is not more open
\* than the visibility of the directory it is in now.
C30_MovedPageNotMoreOpen ==
    propagation.status = "done" =>
        \A p \in PageSet \cap DOMAIN propagation.before[1] :
            (/\ propagation.before[1][p].directory # pages[p].directory
             /\ pages[p].directory # NoDir) =>
                ~is_more_open_than(pages[p].visibility,
                                   directories[pages[p].directory].visibility)

\* Without a run in between, a page that page_move has put into a directory
\* is not more open than that directory.
C30_MoveAloneKeepsOpenness ==
    [][\A u \in Users, p \in PageSet, t \in Dirs :
          (page_move(u, p, t) /\ request'.status = "ok") =>
              ~is_more_open_than(pages'[p].visibility,
                                 directories'[t].visibility)]_vars

====
